---------------------------- MODULE Spec2Model ----------------------------
(***************************************************************************)
(* Model of the candidate/job matching engine of RoleSync                  *)
(* (backend/app/ai/match_score.py, backend/app/ai/project_relevance.py).   *)
(*                                                                         *)
(* Python values are tagged records, so that values of different Python    *)
(* types can be told apart:                                                *)
(*   None   [t |-> "none"]                                                 *)
(*   str    [t |-> "str",  v |-> <<"p","y">>]   a sequence of characters   *)
(*   int    [t |-> "int",  v |-> 3]                                        *)
(*   float  [t |-> "float", v |-> 6667]         in hundredths: 66.67       *)
(*   list   [t |-> "list", v |-> <<value, ...>>]                           *)
(*   dict   [t |-> "dict", v |-> [key |-> value, ...]]                     *)
(* A mapping is a function from the keys it holds to values; an absent key *)
(* is a key outside its DOMAIN.                                            *)
(*                                                                         *)
(* Percentages (round(x, 2) results) are integers in hundredths: 66.67 is  *)
(* 6667.  A similarity (a float in [0,1]) is an exact fraction <<n, d>>.   *)
(***************************************************************************)
EXTENDS Integers, Sequences, FiniteSets, TLC

(***************************************************************************)
(* Python values                                                           *)
(***************************************************************************)
None == [t |-> "none"]
PyStr(s) == [t |-> "str", v |-> s]
PyInt(n) == [t |-> "int", v |-> n]
PyFloat(h) == [t |-> "float", v |-> h]
PyList(l) == [t |-> "list", v |-> l]
PyDict(m) == [t |-> "dict", v |-> m]

EmptyMap == [k \in {} |-> None]

IsNone(x) == x.t = "none"
IsStr(x) == x.t = "str"
IsInt(x) == x.t = "int"
IsFloat(x) == x.t = "float"
IsList(x) == x.t = "list"
IsDict(x) == x.t = "dict"

\* bool(x): None, "", 0, [] and {} are falsy
Truthy(x) ==
    CASE x.t = "none" -> FALSE
      [] x.t = "str" -> Len(x.v) > 0
      [] x.t = "int" -> x.v # 0
      [] x.t = "float" -> x.v # 0
      [] x.t = "list" -> Len(x.v) > 0
      [] x.t = "dict" -> DOMAIN x.v # {}
      [] OTHER -> TRUE

\* x or y
Or(x, y) == IF Truthy(x) THEN x ELSE y

\* d.get(k) and d.get(k, default) on a mapping d
Get(d, k) == IF k \in DOMAIN d THEN d[k] ELSE None
GetDefault(d, k, default) == IF k \in DOMAIN d THEN d[k] ELSE default

\* d[k] = x on a mapping d
SetItem(d, k, x) == [j \in DOMAIN d \cup {k} |-> IF j = k THEN x ELSE d[j]]

(***************************************************************************)
(* Strings: str.lower, str.strip, substring test, digit runs               *)
(***************************************************************************)
UpperCase == <<"A","B","C","D","E","F","G","H","I","J","K","L","M",
               "N","O","P","Q","R","S","T","U","V","W","X","Y","Z">>
LowerCase == <<"a","b","c","d","e","f","g","h","i","j","k","l","m",
               "n","o","p","q","r","s","t","u","v","w","x","y","z">>
Digits == <<"0","1","2","3","4","5","6","7","8","9">>
Whitespace == {" ", "\t", "\n"}

IsUpper(c) == \E i \in 1..Len(UpperCase) : UpperCase[i] = c
LowerChar(c) ==
    IF IsUpper(c)
    THEN LowerCase[CHOOSE i \in 1..Len(UpperCase) : UpperCase[i] = c]
    ELSE c
Lower(s) == [i \in 1..Len(s) |-> LowerChar(s[i])]

IsDigit(c) == \E i \in 1..Len(Digits) : Digits[i] = c
DigitVal(c) == (CHOOSE i \in 1..Len(Digits) : Digits[i] = c) - 1

RECURSIVE LStrip(_)
LStrip(s) ==
    IF Len(s) > 0 /\ s[1] \in Whitespace THEN LStrip(Tail(s)) ELSE s
RECURSIVE RStrip(_)
RStrip(s) ==
    IF Len(s) > 0 /\ s[Len(s)] \in Whitespace
    THEN RStrip(SubSeq(s, 1, Len(s) - 1))
    ELSE s
Strip(s) == RStrip(LStrip(s))

\* sub in s, for strings
Contains(s, sub) ==
    \E i \in 1..(Len(s) - Len(sub) + 1) : SubSeq(s, i, i + Len(sub) - 1) = sub

\* The value of a non-empty run of decimal digits: int("35") = 35
RECURSIVE ToInt(_)
ToInt(ds) ==
    IF Len(ds) = 0 THEN 0
    ELSE 10 * ToInt(SubSeq(ds, 1, Len(ds) - 1)) + DigitVal(ds[Len(ds)])

\* Length of the run of digits (of whitespace) of s that starts at index i
RECURSIVE DigitRun(_, _)
DigitRun(s, i) ==
    IF i <= Len(s) /\ IsDigit(s[i]) THEN 1 + DigitRun(s, i + 1) ELSE 0
RECURSIVE SpaceRun(_, _)
SpaceRun(s, i) ==
    IF i <= Len(s) /\ s[i] \in Whitespace THEN 1 + SpaceRun(s, i + 1) ELSE 0

(***************************************************************************)
(* Rounding.  round(x, n) of a float rounds the decimal value of the float *)
(* half to even; RoundDiv(p, q) is p/q rounded to the nearest integer,     *)
(* half to even, for q > 0.                                                *)
(***************************************************************************)
\* Rounding up
RoundUp(p, q) == (p + q - 1) \div q

RoundDiv(p, q) ==
    LET f == p \div q
        r == p % q
    IN  IF 2 * r < q THEN f
        ELSE IF 2 * r > q THEN f + 1
        ELSE IF f % 2 = 0 THEN f ELSE f + 1

(***************************************************************************)
(* Results of operations that may raise: Ok(v) or Raise(exc)               *)
(***************************************************************************)
Ok(x) == [ok |-> TRUE, v |-> x]
Raise(e) == [ok |-> FALSE, exc |-> e]

(***************************************************************************)
(* match_score.py: parse_experience_to_int                                 *)
(* exp is None, an int, a float or a str; the result is None or an int.    *)
(***************************************************************************)
\* re.search in place of re.match: the first range anywhere in the text
RangeFrom(text, s) ==
    LET n1 == DigitRun(text, s)
        i2 == s + n1 + SpaceRun(text, s + n1)
        i3 == i2 + 1 + SpaceRun(text, i2 + 1)
        n2 == DigitRun(text, i3)
    IN  IF n1 > 0 /\ i2 <= Len(text) /\ text[i2] = "-" /\ n2 > 0
        THEN <<TRUE, ToInt(SubSeq(text, s, s + n1 - 1)), ToInt(SubSeq(text, i3, i3 + n2 - 1))>>
        ELSE <<FALSE, 0, 0>>
SearchRange(text) ==
    IF \E s \in 1..Len(text) : RangeFrom(text, s)[1]
    THEN RangeFrom(text, CHOOSE s \in 1..Len(text) :
                            RangeFrom(text, s)[1] /\ \A m \in 1..(s - 1) : ~RangeFrom(text, m)[1])
    ELSE <<FALSE, 0, 0>>

\* re.match(r"(\d+)\s*-\s*(\d+)", text): <<matched, a, b>>
MatchRange(text) ==
    LET n1 == DigitRun(text, 1)
        i2 == 1 + n1 + SpaceRun(text, 1 + n1)
        i3 == i2 + 1 + SpaceRun(text, i2 + 1)
        n2 == DigitRun(text, i3)
    IN  IF n1 > 0 /\ i2 <= Len(text) /\ text[i2] = "-" /\ n2 > 0
        THEN <<TRUE, ToInt(SubSeq(text, 1, n1)), ToInt(SubSeq(text, i3, i3 + n2 - 1))>>
        ELSE <<FALSE, 0, 0>>

\* re.match(r"(\d+)\s*\+", text): <<matched, a>>
MatchPlus(text) ==
    LET n1 == DigitRun(text, 1)
        i2 == 1 + n1 + SpaceRun(text, 1 + n1)
    IN  IF n1 > 0 /\ i2 <= Len(text) /\ text[i2] = "+"
        THEN <<TRUE, ToInt(SubSeq(text, 1, n1))>>
        ELSE <<FALSE, 0>>

\* re.search(r"(\d+)", text): <<found, a>>, the first maximal run of digits
SearchNumber(text) ==
    IF \E i \in 1..Len(text) : IsDigit(text[i])
    THEN LET i == CHOOSE k \in 1..Len(text) :
                     IsDigit(text[k]) /\ \A m \in 1..(k - 1) : ~IsDigit(text[m])
         IN  <<TRUE, ToInt(SubSeq(text, i, i + DigitRun(text, i) - 1))>>
    ELSE <<FALSE, 0>>

\* Rounding down instead of toward zero
Floor(h) == h \div 100

\* int(x) of a float of h hundredths: truncation toward zero
Trunc(h) == IF h >= 0 THEN h \div 100 ELSE -((-h) \div 100)

KwIntern == <<"i","n","t","e","r","n">>
KwEntry == <<"e","n","t","r","y">>
KwJunior == <<"j","u","n","i","o","r">>
KwMid == <<"m","i","d">>
KwSenior == <<"s","e","n","i","o","r">>
KwLead == <<"l","e","a","d">>
KwPrincipal == <<"p","r","i","n","c","i","p","a","l">>

\* The keyword rules tried before the digit rules
KeywordsFirst(exp) ==
    IF IsNone(exp) THEN None
    ELSE IF IsInt(exp) THEN PyInt(exp.v)
    ELSE IF IsFloat(exp) THEN PyInt(Trunc(exp.v))
    ELSE
      LET text == Strip(Lower(exp.v))
          rng == MatchRange(text)
          pls == MatchPlus(text)
          num == SearchNumber(text)
      IN  IF Contains(text, KwIntern) \/ Contains(text, KwEntry) THEN PyInt(0)
          ELSE IF Contains(text, KwJunior) THEN PyInt(1)
          ELSE IF Contains(text, KwMid) THEN PyInt(3)
          ELSE IF Contains(text, KwSenior) THEN PyInt(5)
          ELSE IF Contains(text, KwLead) \/ Contains(text, KwPrincipal) THEN PyInt(7)
          ELSE IF rng[1] THEN PyInt((rng[2] + rng[3]) \div 2)
          ELSE IF pls[1] THEN PyInt(pls[2])
          ELSE IF num[1] THEN PyInt(num[2])
          ELSE None

\* The keyword rules with "senior" tried before "mid"
SeniorBeforeMid(exp) ==
    IF IsNone(exp) THEN None
    ELSE IF IsInt(exp) THEN PyInt(exp.v)
    ELSE IF IsFloat(exp) THEN PyInt(Trunc(exp.v))
    ELSE
      LET text == Strip(Lower(exp.v))
          rng == MatchRange(text)
          pls == MatchPlus(text)
          num == SearchNumber(text)
      IN  IF rng[1] THEN PyInt((rng[2] + rng[3]) \div 2)
          ELSE IF pls[1] THEN PyInt(pls[2])
          ELSE IF num[1] THEN PyInt(num[2])
          ELSE IF Contains(text, KwIntern) \/ Contains(text, KwEntry) THEN PyInt(0)
          ELSE IF Contains(text, KwJunior) THEN PyInt(1)
          ELSE IF Contains(text, KwSenior) THEN PyInt(5)
          ELSE IF Contains(text, KwMid) THEN PyInt(3)
          ELSE IF Contains(text, KwLead) \/ Contains(text, KwPrincipal) THEN PyInt(7)
          ELSE None

parse_experience_to_int(exp) ==
    IF IsNone(exp) THEN None
    ELSE IF IsInt(exp) THEN PyInt(exp.v)
    ELSE IF IsFloat(exp) THEN PyInt(Trunc(exp.v))
    ELSE
      LET text == Strip(Lower(exp.v))
          rng == MatchRange(text)
          pls == MatchPlus(text)
          num == SearchNumber(text)
      IN  IF rng[1] THEN PyInt((rng[2] + rng[3]) \div 2)
          ELSE IF pls[1] THEN PyInt(pls[2])
          ELSE IF num[1] THEN PyInt(num[2])
          ELSE IF Contains(text, KwIntern) \/ Contains(text, KwEntry) THEN PyInt(0)
          ELSE IF Contains(text, KwJunior) THEN PyInt(1)
          ELSE IF Contains(text, KwMid) THEN PyInt(3)
          ELSE IF Contains(text, KwSenior) THEN PyInt(5)
          ELSE IF Contains(text, KwLead) \/ Contains(text, KwPrincipal) THEN PyInt(7)
          ELSE None

(***************************************************************************)
(* match_score.py: _normalize_list                                         *)
(* x is None or a list; the result is the sequence of the stripped,        *)
(* non-blank str entries, in order.                                        *)
(***************************************************************************)
RECURSIVE NormalizeSeq(_)
NormalizeSeq(l) ==
    IF Len(l) = 0 THEN <<>>
    ELSE IF IsStr(l[1]) /\ Len(Strip(l[1].v)) > 0
         THEN <<Strip(l[1].v)>> \o NormalizeSeq(Tail(l))
         ELSE NormalizeSeq(Tail(l))

_normalize_list(x) == IF Truthy(x) THEN NormalizeSeq(x.v) ELSE <<>>

LowerAll(l) == [i \in 1..Len(l) |-> Lower(l[i])]

(***************************************************************************)
(* project_relevance.py: _clean                                            *)
(* s is any value:  (s or "").strip().lower() with every run of whitespace *)
(* replaced by one space.  A truthy value that is not a str has no strip.  *)
(***************************************************************************)
RECURSIVE CollapseSpaces(_)
CollapseSpaces(s) ==
    IF Len(s) = 0 THEN <<>>
    ELSE IF s[1] \in Whitespace
         THEN <<" ">> \o CollapseSpaces(SubSeq(s, 1 + SpaceRun(s, 1), Len(s)))
         ELSE <<s[1]>> \o CollapseSpaces(Tail(s))

\* The text not trimmed before its whitespace is collapsed
CleanStrUntrimmed(s) == CollapseSpaces(Lower(s))

CleanStr(s) == CollapseSpaces(Lower(Strip(s)))

_clean(s) ==
    IF ~Truthy(s) THEN Ok(<<>>)
    ELSE IF IsStr(s) THEN Ok(CleanStr(s.v))
    ELSE Raise("AttributeError")

(***************************************************************************)
(* difflib.SequenceMatcher(None, a, b).ratio(), as _similarity uses it:    *)
(* no junk, and strings shorter than the 200 characters at which the       *)
(* autojunk heuristic starts.  Indices are 1-based and inclusive.          *)
(***************************************************************************)
\* Length of the common prefix of a[i..ahi] and b[j..bhi]
RECURSIVE CommonPrefix(_, _, _, _, _, _)
CommonPrefix(a, b, i, j, ahi, bhi) ==
    IF i <= ahi /\ j <= bhi /\ a[i] = b[j]
    THEN 1 + CommonPrefix(a, b, i + 1, j + 1, ahi, bhi)
    ELSE 0

\* find_longest_match: <<i, j, k>>, the longest block a[i..i+k-1] = b[j..j+k-1]
\* within a[alo..ahi], b[blo..bhi]; of the longest blocks the one that starts
\* earliest in a, and of those the one that starts earliest in b.  k = 0 if none.
find_longest_match(a, b, alo, ahi, blo, bhi) ==
    LET Pairs == (alo..ahi) \X (blo..bhi)
        K(p) == CommonPrefix(a, b, p[1], p[2], ahi, bhi)
    IN  IF \A p \in Pairs : K(p) = 0 THEN <<alo, blo, 0>>
        ELSE LET best == CHOOSE p \in Pairs :
                    /\ K(p) > 0
                    /\ \A q \in Pairs :
                          \/ K(q) < K(p)
                          \/ K(q) = K(p) /\ (q[1] > p[1] \/ (q[1] = p[1] /\ q[2] >= p[2]))
             IN  <<best[1], best[2], K(best)>>

\* Sum of the sizes of get_matching_blocks(): the longest block, then the
\* blocks of the pieces to its left and to its right
RECURSIVE MatchCount(_, _, _, _, _, _)
RECURSIVE MatchSplit(_, _, _, _, _, _, _)
MatchSplit(a, b, alo, ahi, blo, bhi, m) ==
    IF m[3] = 0 THEN 0
    ELSE m[3] + MatchCount(a, b, alo, m[1] - 1, blo, m[2] - 1)
              + MatchCount(a, b, m[1] + m[3], ahi, m[2] + m[3], bhi)
MatchCount(a, b, alo, ahi, blo, bhi) ==
    IF alo > ahi \/ blo > bhi THEN 0
    ELSE MatchSplit(a, b, alo, ahi, blo, bhi,
                    find_longest_match(a, b, alo, ahi, blo, bhi))

\* ratio(): 2.0 * matches / (len(a) + len(b)), and 1.0 for two empty strings
Ratio(a, b) ==
    IF Len(a) + Len(b) = 0 THEN <<1, 1>>
    ELSE <<2 * MatchCount(a, b, 1, Len(a), 1, Len(b)), Len(a) + Len(b)>>

\* Fractions <<n, d>> with d > 0
FracLess(x, y) == x[1] * y[2] < y[1] * x[2]
FracAdd(x, y) == <<x[1] * y[2] + y[1] * x[2], x[2] * y[2]>>

(***************************************************************************)
(* project_relevance.py: _similarity (a, b: str values)                    *)
(***************************************************************************)
_similarity(a, b) == Ratio(_clean(a).v, _clean(b).v)

(***************************************************************************)
(* project_relevance.py: project_relevance_score                           *)
(* projects and responsibilities are None or lists of any values;          *)
(* threshold is a fraction.  The result is Ok(score in thousandths), the   *)
(* score being round(avg, 3), or Raise(exc) when _clean raises.            *)
(***************************************************************************)
\* The similarity of the last project kept instead of the best
Latest(best, sim) == sim

\* The inner loop: the best similarity of r_clean to a non-blank project
\* if sim > best: best = sim
Better(best, sim) == IF FracLess(best, sim) THEN sim ELSE best

RECURSIVE BestSimilarity(_, _, _)
RECURSIVE BestStep(_, _, _, _)
BestStep(projects, r_clean, best, p_clean) ==
    IF ~p_clean.ok THEN p_clean
    ELSE IF Len(p_clean.v) = 0 THEN BestSimilarity(Tail(projects), r_clean, best)
    ELSE BestSimilarity(Tail(projects), r_clean,
                        Better(best, _similarity(PyStr(p_clean.v), PyStr(r_clean))))
BestSimilarity(projects, r_clean, best) ==
    IF Len(projects) = 0 THEN Ok(best)
    ELSE BestStep(projects, r_clean, best, _clean(projects[1]))

\* A best score equal to the threshold is dropped
ClampStrict(best, threshold) == IF FracLess(threshold, best) THEN best ELSE <<0, 1>>

\* The outer loop: the list scores, one entry per non-blank responsibility
\* best if best >= threshold else 0.0
Clamp(best, threshold) == IF FracLess(best, threshold) THEN <<0, 1>> ELSE best

RECURSIVE RelevanceScores(_, _, _, _)
RECURSIVE RelevanceAppend(_, _, _, _, _)
RECURSIVE RelevanceStep(_, _, _, _, _)
RelevanceAppend(projects, responsibilities, threshold, scores, best) ==
    IF ~best.ok THEN best
    ELSE RelevanceScores(projects, Tail(responsibilities), threshold,
                         Append(scores, Clamp(best.v, threshold)))
RelevanceStep(projects, responsibilities, threshold, scores, r_clean) ==
    IF ~r_clean.ok THEN r_clean
    ELSE IF Len(r_clean.v) = 0
         THEN RelevanceScores(projects, Tail(responsibilities), threshold, scores)
    ELSE RelevanceAppend(projects, responsibilities, threshold, scores,
                         BestSimilarity(projects, r_clean.v, <<0, 1>>))
RelevanceScores(projects, responsibilities, threshold, scores) ==
    IF Len(responsibilities) = 0 THEN Ok(scores)
    ELSE RelevanceStep(projects, responsibilities, threshold, scores,
                       _clean(responsibilities[1]))

RECURSIVE FracSum(_)
FracSum(scores) ==
    IF Len(scores) = 0 THEN <<0, 1>> ELSE FracAdd(scores[1], FracSum(Tail(scores)))

DefaultThreshold == <<35, 100>>

\* The thresholds callers pass: the default and one half
Thresholds == {DefaultThreshold, <<1, 2>>}

\* Lines 44-48: round(sum(scores) / len(scores), 3), and 0.0 for no scores
Average(scores) ==
    IF ~scores.ok THEN scores
    ELSE IF Len(scores.v) = 0 THEN Ok(0)
    ELSE LET total == FracSum(scores.v)
         IN  Ok(RoundDiv(1000 * total[1], total[2] * Len(scores.v)))

\* The two early returns in the other order
ProjectsFirst(projects, responsibilities, threshold) ==
    IF ~Truthy(projects) THEN Ok(0)
    ELSE IF ~Truthy(responsibilities) THEN Ok(1000)
    ELSE Average(RelevanceScores(projects.v, responsibilities.v, threshold, <<>>))

\* Lines 12-48, the result in thousandths
project_relevance_score(projects, responsibilities, threshold) ==
    IF ~Truthy(responsibilities) THEN Ok(1000)
    ELSE IF ~Truthy(projects) THEN Ok(0)
    ELSE Average(RelevanceScores(projects.v, responsibilities.v, threshold, <<>>))

sEmptyText == PyStr(<<>>)

(***************************************************************************)
(* Formatting of a float with at most two decimals (given in hundredths)   *)
(* by an f-string: "66.67", "100.0", "33.3", "-50.0"                       *)
(***************************************************************************)
RECURSIVE IntDigits(_)
IntDigits(n) ==
    IF n < 10 THEN <<Digits[n + 1]>>
    ELSE IntDigits(n \div 10) \o <<Digits[(n % 10) + 1]>>

FormatFloat(h) ==
    LET m == IF h < 0 THEN 0 - h ELSE h
        fp == m % 100
    IN  (IF h < 0 THEN <<"-">> ELSE <<>>)
        \o IntDigits(m \div 100) \o <<".">>
        \o (IF fp % 10 = 0 THEN <<Digits[(fp \div 10) + 1]>>
            ELSE <<Digits[(fp \div 10) + 1], Digits[(fp % 10) + 1]>>)

(***************************************************************************)
(* match_score.py: deterministic_score                                     *)
(* candidate and job_role are mappings.  The lists are None or lists, the  *)
(* texts None or str, experience_years None or an int, experience_level    *)
(* None, an int or a str, parsed any value.                                *)
(***************************************************************************)
\* The coverage with a skill that occurs twice in the list counted once
CoverageDistinctHits(skills, cand_sk) ==
    IF Len(skills) = 0 THEN 10000
    ELSE RoundDiv(10000 * Cardinality({skills[i] : i \in 1..Len(skills)} \cap cand_sk),
                  Len(skills))

\* The share of the candidate's skills that are listed instead of the share
\* of the listed skills that the candidate has
CoverageOfCandidate(skills, cand_sk) ==
    IF Len(skills) = 0 THEN 10000
    ELSE IF cand_sk = {} THEN 0
    ELSE RoundDiv(10000 * Cardinality({skills[i] : i \in 1..Len(skills)} \cap cand_sk),
                  Cardinality(cand_sk))

\* round(100 * (sum(1 for r in skills if r in cand_sk) / len(skills)), 2)
\* if skills else 100.0
Coverage(skills, cand_sk) ==
    IF Len(skills) = 0 THEN 10000
    ELSE RoundDiv(10000 * Cardinality({i \in 1..Len(skills) : skills[i] \in cand_sk}),
                  Len(skills))

\* The semantic match over the distinct keys
SemanticFitDistinct(keys, raw_text) ==
    IF Len(keys) = 0 THEN 5000
    ELSE RoundDiv(10000 * Cardinality({k \in {keys[i] : i \in 1..Len(keys)} :
                                          Contains(raw_text, Lower(k))}),
                  Cardinality({keys[i] : i \in 1..Len(keys)}))

\* The semantic keyword match: the share of keys found in the resume text
SemanticFit(keys, raw_text) ==
    IF Len(keys) = 0 THEN 5000
    ELSE RoundDiv(10000 * Cardinality({i \in 1..Len(keys) :
                                          Len(keys[i]) > 0 /\ Contains(raw_text, Lower(keys[i]))}),
                  Len(keys))

\* A failure counted as the neutral 50.0
OrNeutral(r) == IF r.ok THEN 10 * r.v ELSE 5000

\* try: round(project_relevance_score(projects, responsibilities) * 100, 2)
\* except Exception: 0.0
OrZero(r) == IF r.ok THEN 10 * r.v ELSE 0
ProjectScore(projects, job_role) ==
    OrZero(project_relevance_score(
               PyList([i \in 1..Len(projects) |-> PyStr(projects[i])]),
               GetDefault(job_role, "responsibilities", PyList(<<>>)),
               DefaultThreshold))

\* job_role.get("parsed", {}).get(k): only a dict has get
ParsedGet(job_role, k) ==
    LET parsed == GetDefault(job_role, "parsed", PyDict(EmptyMap))
    IN  IF IsDict(parsed) THEN Ok(Get(parsed.v, k)) ELSE Raise("AttributeError")

\* The level as read, with no fallback to the parsed requirements
ExperienceLevelNoFallback(level, job_role) == Ok(level)

\* level or job_role.get("parsed", {}).get("experience_level"), level being
\* the value of job_role.get("experience_level")
ExperienceLevel(level, job_role) ==
    IF Truthy(level) THEN Ok(level) ELSE ParsedGet(job_role, "experience_level")

\* The fit without the cap at 100
ExperienceFitUncapped(ideal, cand_exp) ==
    IF IsNone(ideal) \/ ideal.v <= 0 THEN 5000
    ELSE RoundDiv(10000 * cand_exp, ideal.v)

\* The experience fit of cand_exp years against ideal (None or an int)
ExperienceFit(ideal, cand_exp) ==
    IF IsNone(ideal) \/ ideal.v <= 0 THEN 5000
    ELSE IF cand_exp >= ideal.v THEN 10000
    ELSE RoundDiv(10000 * cand_exp, ideal.v)

\* weights, in hundredths
WeightRequired == 35
WeightPreferred == 15
WeightSemantic == 15
WeightProjects == 20
WeightExperience == 15

\* The weights of projects and experience exchanged
WeightedScoreSwapped(req_cov, pref_cov, semantic_score, proj_score, exp_score) ==
    RoundDiv(req_cov * WeightRequired + pref_cov * WeightPreferred
             + semantic_score * WeightSemantic + proj_score * WeightExperience
             + exp_score * WeightProjects, 100)

\* round(total, 2) of the weighted combination
WeightedScore(req_cov, pref_cov, semantic_score, proj_score, exp_score) ==
    RoundDiv(req_cov * WeightRequired + pref_cov * WeightPreferred
             + semantic_score * WeightSemantic + proj_score * WeightProjects
             + exp_score * WeightExperience, 100)

\* f"{label}{value}%": the label is kept as one piece of the text
Explain(label, value) == PyStr(<<label>> \o FormatFloat(value) \o <<"%">>)

\* The explanation of the project relevance reporting the experience fit
BreakdownMisreported(req_cov, pref_cov, semantic_score, proj_score, exp_score) ==
    [score |-> PyFloat(WeightedScore(req_cov, pref_cov, semantic_score,
                                     proj_score, exp_score)),
     components |-> PyDict([required_coverage |-> PyFloat(req_cov),
                            preferred_coverage |-> PyFloat(pref_cov),
                            semantic_fit |-> PyFloat(semantic_score),
                            project_relevance |-> PyFloat(proj_score),
                            experience_fit |-> PyFloat(exp_score)]),
     explanations |-> PyList(<<Explain("Required skill match: ", req_cov),
                               Explain("Preferred skill match: ", pref_cov),
                               Explain("Project relevance: ", exp_score),
                               Explain("Experience fit: ", exp_score)>>),
     method |-> PyStr(<<"deterministic">>)]

\* Lines 125-141: the result, from the five component values
Breakdown(req_cov, pref_cov, semantic_score, proj_score, exp_score) ==
    [score |-> PyFloat(WeightedScore(req_cov, pref_cov, semantic_score,
                                     proj_score, exp_score)),
     components |-> PyDict([required_coverage |-> PyFloat(req_cov),
                            preferred_coverage |-> PyFloat(pref_cov),
                            semantic_fit |-> PyFloat(semantic_score),
                            project_relevance |-> PyFloat(proj_score),
                            experience_fit |-> PyFloat(exp_score)]),
     explanations |-> PyList(<<Explain("Required skill match: ", req_cov),
                               Explain("Preferred skill match: ", pref_cov),
                               Explain("Project relevance: ", proj_score),
                               Explain("Experience fit: ", exp_score)>>),
     method |-> PyStr(<<"deterministic">>)]

\* Line 81: set(s.lower() for s in _normalize_list(candidate.get("skills")))
CandidateSkills(skills) == {Lower(skills[i]) : i \in 1..Len(skills)}

\* Line 85: (candidate.get("parsed_text") or candidate.get("raw_text") or "").lower()
ResumeText(candidate) ==
    Lower(Or(Or(Get(candidate, "parsed_text"), Get(candidate, "raw_text")), sEmptyText).v)

\* A candidate without experience_years counted as one year
CandidateYearsOne(candidate) == Or(Get(candidate, "experience_years"), PyInt(1)).v

\* Line 101: candidate.get("experience_years") or 0
CandidateYears(candidate) == Or(Get(candidate, "experience_years"), PyInt(0)).v

\* Lines 87-141, from the values of lines 81-85 and the experience level
ScoreParts(cand_sk, req, pref, projects, raw_text, job_role, lvl, cand_exp) ==
    IF ~lvl.ok THEN lvl
    ELSE Ok(Breakdown(Coverage(req, cand_sk),
                      Coverage(pref, cand_sk),
                      SemanticFit(req \o pref, raw_text),
                      ProjectScore(projects, job_role),
                      ExperienceFit(parse_experience_to_int(lvl.v), cand_exp)))

\* deterministic_score from line 81 on, level being the value that
\* job_role.get("experience_level") returned at line 99
ScoreWithLevel(candidate, job_role, level) ==
    ScoreParts(CandidateSkills(_normalize_list(Get(candidate, "skills"))),
               LowerAll(_normalize_list(Get(job_role, "required_skills"))),
               LowerAll(_normalize_list(Get(job_role, "preferred_skills"))),
               _normalize_list(Get(candidate, "projects")),
               ResumeText(candidate),
               job_role,
               ExperienceLevel(level, job_role),
               CandidateYears(candidate))

deterministic_score(candidate, job_role) ==
    ScoreWithLevel(candidate, job_role, Get(job_role, "experience_level"))

(***************************************************************************)
(* match_score.py: gemini_score                                            *)
(* The reply of the generative model is outside the program: resp is       *)
(* either [raises |-> TRUE] (generate_content or resp.text raises) or      *)
(* [raises |-> FALSE, text |-> tokens], the reply text as a sequence of    *)
(* tokens: [t |-> "text"] (characters other than braces), [t |-> "{"],     *)
(* [t |-> "}"] (a brace of the outermost level) and                        *)
(* [t |-> "member", k |-> key, v |-> value] (a "key": value member).       *)
(***************************************************************************)
\* text.find("{") and text.rfind("}"): an index, or 0 for Python's -1
Find(text, tok) ==
    IF \E i \in 1..Len(text) : text[i].t = tok
    THEN CHOOSE i \in 1..Len(text) :
            text[i].t = tok /\ \A j \in 1..(i - 1) : text[j].t # tok
    ELSE 0
RFind(text, tok) ==
    IF \E i \in 1..Len(text) : text[i].t = tok
    THEN CHOOSE i \in 1..Len(text) :
            text[i].t = tok /\ \A j \in (i + 1)..Len(text) : text[j].t # tok
    ELSE 0

\* The object of the members, a later member replacing an earlier one
RECURSIVE Members(_, _)
Members(toks, obj) ==
    IF Len(toks) = 0 THEN obj
    ELSE Members(Tail(toks), SetItem(obj, toks[1].k, toks[1].v))

\* json.loads of a slice of the reply: an object is "{", members, "}"
JsonLoads(toks) ==
    IF /\ Len(toks) >= 2
       /\ toks[1].t = "{"
       /\ toks[Len(toks)].t = "}"
       /\ \A i \in 2..(Len(toks) - 1) : toks[i].t = "member"
    THEN Ok(Members(SubSeq(toks, 2, Len(toks) - 1), EmptyMap))
    ELSE Raise("JSONDecodeError")

\* The validation asks for "score" only
ParseReplyScoreOnly(text) ==
    LET s == Find(text, "{")
        e == RFind(text, "}")
        payload == JsonLoads(SubSeq(text, s, e))
    IN  IF s = 0 \/ e = 0 THEN Raise("ValueError")
        ELSE IF ~payload.ok THEN payload
        ELSE IF "score" \notin DOMAIN payload.v THEN Raise("ValueError")
        ELSE Ok(SetItem(SetItem(payload.v, "method", PyStr(<<"gemini">>)),
                        "raw_llm_text", PyStr(text)))

\* Lines 192-205: from the reply text to the payload
ParseReply(text) ==
    LET s == Find(text, "{")
        e == RFind(text, "}")
        payload == JsonLoads(SubSeq(text, s, e))
    IN  IF s = 0 \/ e = 0 THEN Raise("ValueError")
        ELSE IF ~payload.ok THEN payload
        ELSE IF "score" \notin DOMAIN payload.v \/ "components" \notin DOMAIN payload.v
             THEN Raise("ValueError")
        ELSE Ok(SetItem(SetItem(payload.v, "method", PyStr(<<"gemini">>)),
                        "raw_llm_text", PyStr(text)))

\* Lines 153-167: the briefs read the job's experience level and JD text
JobBrief(job_role) ==
    LET level == ExperienceLevel(Get(job_role, "experience_level"), job_role)
        jd == IF Truthy(Get(job_role, "raw_text")) THEN Ok(Get(job_role, "raw_text"))
              ELSE LET parsed == GetDefault(job_role, "parsed", PyDict(EmptyMap))
                   IN  IF IsDict(parsed)
                       THEN Ok(GetDefault(parsed.v, "raw_text", PyStr(<<>>)))
                       ELSE Raise("AttributeError")
    IN  IF ~level.ok THEN level ELSE jd

gemini_score(key, candidate, job_role, resp) ==
    IF ~key THEN Raise("RuntimeError")
    ELSE IF ~JobBrief(job_role).ok THEN JobBrief(job_role)
    ELSE IF resp.raises THEN Raise("Unavailable")
    ELSE ParseReply(resp.text)

(***************************************************************************)
(* match_score.py: compute_match_score, run alone                          *)
(* The result is [ret |-> Ok(result) or Raise(exc), job_role |-> the job   *)
(* mapping as the call leaves it].                                         *)
(***************************************************************************)
\* Line 216: not job_role.get("experience_level")
\*           and job_role.get("parsed", {}).get("experience_level")
LevelMissing(job_role) ==
    IF Truthy(Get(job_role, "experience_level")) THEN Ok(FALSE)
    ELSE LET p == ParsedGet(job_role, "experience_level")
         IN  IF p.ok THEN Ok(Truthy(p.v)) ELSE p

\* The write stores a fixed level instead of the parsed one
CopyLevelFixed(job_role) ==
    SetItem(job_role, "experience_level", PyStr(<<"9", "+">>))

\* Line 217: job_role["experience_level"] = job_role["parsed"]["experience_level"]
CopyLevel(job_role) ==
    SetItem(job_role, "experience_level", job_role["parsed"].v["experience_level"])

\* Lines 220-227, job being the mapping after line 217
ScoreJob(key, candidate, job, use_llm, llm) ==
    IF use_llm /\ key /\ llm.ok THEN [ret |-> llm, job_role |-> job]
    ELSE [ret |-> deterministic_score(candidate, job), job_role |-> job]

Normalized(key, candidate, job_role, use_llm, resp, missing) ==
    IF ~missing.ok THEN [ret |-> missing, job_role |-> job_role]
    ELSE IF missing.v
         THEN ScoreJob(key, candidate, CopyLevel(job_role), use_llm,
                       gemini_score(key, candidate, CopyLevel(job_role), resp))
    ELSE ScoreJob(key, candidate, job_role, use_llm,
                  gemini_score(key, candidate, job_role, resp))

compute_match_score(key, candidate, job_role, use_llm, resp) ==
    Normalized(key, candidate, job_role, use_llm, resp, LevelMissing(job_role))

(***************************************************************************)
(* self_analysis.py: run_self_analysis from step 3 on, resume parsing and  *)
(* skill extraction having returned the mappings parsed and skill_info     *)
(***************************************************************************)
\* compute_match_score(candidate, job_role, use_llm) on values of any type:
\* line 216 calls job_role.get, lines 153 and 81 call candidate.get
ScoreValues(key, candidate, job_role, use_llm, resp) ==
    IF ~IsDict(job_role) THEN Raise("AttributeError")
    ELSE IF ~LevelMissing(job_role.v).ok THEN LevelMissing(job_role.v)
    ELSE IF ~IsDict(candidate) THEN Raise("AttributeError")
    ELSE compute_match_score(key, candidate.v, job_role.v, Truthy(use_llm), resp).ret

\* Lines 236-269: the lists of required and preferred skills are read from
\* skill_info and passed on with the candidate's skill list
run_self_analysis(key, parsed, skill_info, resp) ==
    LET candidate_skills == GetDefault(parsed, "skills", PyList(<<>>))
        required == GetDefault(skill_info, "required_skills", PyList(<<>>))
        preferred == GetDefault(skill_info, "preferred_skills", PyList(<<>>))
        match_score == ScoreValues(key, candidate_skills, required, preferred, resp)
    IN  IF ~match_score.ok THEN match_score
        ELSE Ok([parsed |-> PyDict(parsed), match_score |-> PyDict(match_score.v)])

(***************************************************************************)
(* resume_parser.py and match_router.py: an uploaded resume is written to  *)
(* /tmp/<filename>, parsed from that path and removed.  A name in /tmp     *)
(* leads to a file (its inode, named after the open that created it) or to *)
(* nothing; a descriptor keeps the inode it was opened on.                 *)
(***************************************************************************)
NoFile == [exists |-> FALSE, inode |-> <<0, 0>>, data |-> "missing"]

\* open(tmp, "wb"): the file is created, or truncated when the name exists
Opened(dir, name, id) ==
    [dir EXCEPT ![name] = IF @.exists THEN [@ EXCEPT !.data = "empty"]
                          ELSE [exists |-> TRUE, inode |-> id, data |-> "empty"]]

\* fh.write(...) and the close of the with block: the bytes reach the inode
\* of the descriptor, which the name leads to only if it was not removed
Written(dir, name, fd, bytes) ==
    [dir EXCEPT ![name] = IF @.exists /\ @.inode = fd THEN [@ EXCEPT !.data = bytes]
                          ELSE @]

\* os.remove(tmp) inside try/except
Removed(dir, name) == [dir EXCEPT ![name] = NoFile]

\* resume_parser.py, parse_resume: a path that is missing or holds no bytes
\* gives no text (the extraction error is caught) and the error mapping;
\* otherwise the mapping the parsing model returns for the bytes
NoText ==
    [error |-> PyStr(<<"C","o","u","l","d"," ","n","o","t">>), raw_text |-> sEmptyText]
parse_resume(dir, name, resumes) ==
    IF dir[name].data \in {"missing", "empty"} THEN NoText ELSE resumes[dir[name].data]

\* The threshold of shortlist_batch
SHORTLIST_THRESHOLD == 45

\* A number in hundredths
Cents(x) == IF IsInt(x) THEN 100 * x.v ELSE x.v

\* match_score > SHORTLIST_THRESHOLD
PassesAbove(match_score) ==
    IF IsInt(match_score) \/ IsFloat(match_score)
    THEN Ok(Cents(match_score) > 100 * SHORTLIST_THRESHOLD)
    ELSE Raise("TypeError")

\* match_score >= SHORTLIST_THRESHOLD: only numbers compare with a number
Passes(match_score) ==
    IF IsInt(match_score) \/ IsFloat(match_score)
    THEN Ok(Cents(match_score) >= 100 * SHORTLIST_THRESHOLD)
    ELSE Raise("TypeError")

\* job.get("required_skills", []) or job.get("parsed", {}).get("required_skills", [])
RequiredOf(job) ==
    IF Truthy(GetDefault(job, "required_skills", PyList(<<>>)))
    THEN Ok(job["required_skills"])
    ELSE ParsedGet(job, "required_skills")

\* "; ".join(match_result.get("explanations", [])): joins strings only
Joined(match_result) ==
    LET e == GetDefault(match_result, "explanations", PyList(<<>>))
    IN  IF IsStr(e) \/ (IsList(e) /\ \A k \in 1..Len(e.v) : IsStr(e.v[k]))
        THEN Ok(e) ELSE Raise("TypeError")

\* s.lower() for every required skill, sk.lower() for every skill of the resume
Lowerable(l) == ~Truthy(l) \/ (IsList(l) /\ \A k \in 1..Len(l.v) : IsStr(l.v[k]))
SkillGaps(required, parsed) ==
    IF Lowerable(required) /\ Lowerable(Get(parsed, "skills"))
    THEN Ok(required) ELSE Raise("AttributeError")

\* The chat store behind the router: the recruiter's chat documents in the
\* order of their insertion, and the insertion of a chat with a fresh _id
list_for_user(store) == store
create_chat(store, job_role_id) ==
    Append(store, [_id |-> Len(store) + 1, job_role_id |-> job_role_id])

\* A request of the recruiter before it arrives
NoRequest ==
    [pc |-> "idle", kind |-> "none", files |-> <<>>, i |-> 0, fd |-> <<0, 0>>,
     job |-> EmptyMap, found |-> 0, chat_id |-> 0, action |-> "none",
     seen |-> <<>>, scored |-> <<>>, shortlisted |-> <<>>, rejected |-> <<>>,
     messages |-> <<>>, exc |-> "none"]

\* The handler raises: the request ends with an error response
Failed(req, dir, exc) == [req |-> [req EXCEPT !.pc = "raised", !.exc = exc], dir |-> dir]

\* The loop of shortlist_batch goes to the next file, or line 328 returns
Continued(req) ==
    [req EXCEPT !.i = @ + 1,
                !.pc = IF req.i = Len(req.files) THEN "returned" ELSE "open"]

\* Lines 166-183: no email detected
NoEmail(req, dir) ==
    [req |-> Continued([req EXCEPT
                 !.rejected = Append(@, [file |-> req.i, candidate_id |-> None,
                                         email |-> None, match_score |-> PyInt(0)]),
                 !.messages = Append(@, [file |-> req.i, action |-> "reject",
                                         chat_id |-> req.chat_id])]),
     dir |-> dir]

\* Lines 238-263 and 304-326: the entry of the response and the chat message
Decided(req, dir, email, match_score, action) ==
    LET entry == [file |-> req.i, candidate_id |-> email, email |-> email,
                  match_score |-> match_score]
        message == [file |-> req.i, action |-> action, chat_id |-> req.chat_id]
    IN  [req |-> Continued([req EXCEPT
                     !.shortlisted = IF action = "shortlist" THEN Append(@, entry) ELSE @,
                     !.rejected = IF action = "reject" THEN Append(@, entry) ELSE @,
                     !.messages = Append(@, message)]),
         dir |-> dir]

\* Lines 234-236: the comparison with the threshold and the joined reason
Thresholded(req, dir, email, match_result, match_score, passes) ==
    IF ~passes.ok THEN Failed(req, dir, passes.exc)
    ELSE IF ~passes.v THEN Decided(req, dir, email, match_score, "reject")
    ELSE IF ~Joined(match_result).ok THEN Failed(req, dir, "TypeError")
    ELSE Decided(req, dir, email, match_score, "shortlist")

\* Lines 225-226: the score of the result and the arguments of the ATS scorer
Classified(req, dir, email, match_result, required) ==
    IF ~required.ok THEN Failed(req, dir, required.exc)
    ELSE Thresholded(req, dir, email, match_result,
                  GetDefault(match_result, "score", PyInt(0)),
                  Passes(GetDefault(match_result, "score", PyInt(0))))

\* Lines 218-223: the result of the try block, or of the handler's second
\* call with use_llm=False, which is not guarded
Fallback(key, parsed, first) ==
    IF first.ret.ok THEN first
    ELSE compute_match_score(key, parsed, first.job_role, FALSE, [raises |-> TRUE])

\* The job after scoring, and what is remembered of the two calls
Scored(req, first, second) ==
    [req EXCEPT !.job = second.job_role,
                !.scored = Append(@, [file |-> req.i, first |-> first.ret.ok,
                                      second |-> second.ret.ok,
                                      method |-> IF second.ret.ok
                                                 THEN Get(second.ret.v, "method")
                                                 ELSE None])]

BatchScored(req, dir, email, first, second) ==
    IF ~second.ret.ok THEN Failed(Scored(req, first, second), dir, second.ret.exc)
    ELSE Classified(Scored(req, first, second), dir, email, second.ret.v,
                    RequiredOf(second.job_role))

BatchParsed(req, dir, key, parsed, resp, first) ==
    BatchScored(req, dir, PyStr(Lower(parsed["email"].v)), first, Fallback(key, parsed, first))

\* Lines 158-326 for the file at req.i: everything after the upload was read
BatchFile(req, dir, key, parsed, resp) ==
    IF ~Truthy(Get(parsed, "email")) THEN NoEmail(req, dir)
    ELSE BatchParsed(req, dir, key, parsed, resp,
                     compute_match_score(key, parsed, req.job, TRUE, resp))

\* score_single, lines 101-127
SingleDone(req, dir, first, required) ==
    IF ~first.ret.ok THEN Failed(Scored(req, first, first), dir, first.ret.exc)
    ELSE IF ~required.ok THEN Failed(Scored(req, first, first), dir, required.exc)
    ELSE [req |-> [Scored(req, first, first) EXCEPT !.pc = "returned"], dir |-> dir]

SingleGaps(req, dir, parsed, first, required) ==
    IF first.ret.ok /\ required.ok /\ ~SkillGaps(required.v, parsed).ok
    THEN Failed(Scored(req, first, first), dir, "AttributeError")
    ELSE SingleDone(req, dir, first, required)

SingleScored(req, dir, parsed, first) ==
    SingleGaps(req, dir, parsed, first, RequiredOf(first.job_role))

\* score_single, lines 71-127, after the upload was read
SingleFile(req, dir, key, parsed, resp) ==
    IF ~Truthy(Get(parsed, "email")) THEN Failed(req, dir, "HTTPException 400")
    ELSE SingleScored(req, dir, parsed, compute_match_score(key, parsed, req.job, TRUE, resp))

\* Lines 71-74 and 158-161: the bytes are written, the path is parsed and removed
Stored(req, dir) == Written(dir, req.files[req.i].filename, req.fd, req.files[req.i].bytes)
Saw(req, dir) == [req EXCEPT !.seen = Append(@, dir[req.files[req.i].filename].data)]

(***************************************************************************)
(* Inputs                                                                  *)
(***************************************************************************)
NumCalls == 2     \* scoring calls in one behaviour
MaxList == 2      \* longest required-skill list drawn
MaxText == 4      \* longest text handed to the normalizer

Merge(f, g) == [k \in DOMAIN f \cup DOMAIN g |-> IF k \in DOMAIN g THEN g[k] ELSE f[k]]

\* The lists of at most n entries drawn from S
ListsUpTo(S, n) == UNION {{PyList(l) : l \in [1..k -> S]} : k \in 0..n}

sPy == PyStr(<<"P","y">>)
sSql == PyStr(<<" ","s","q","l"," ">>)
sAws == PyStr(<<"A","W","S">>)
sBlank == PyStr(<<" ">>)
sEmpty == sEmptyText
sRange == PyStr(<<"3","-","5">>)
sPlus == PyStr(<<"5","+">>)
sSenior == PyStr(<<"S","e","n","i","o","r">>)
sUnknown == PyStr(<<"n","o"," ","i","d","e","a">>)
sResume == PyStr(<<"I"," ","u","s","e"," ","P","Y">>)
sResume2 == PyStr(<<"s","q","l",",","a","w","s">>)
sProjA == PyStr(<<"a","b"," ","c">>)
sProjB == PyStr(<<"B","c">>)
sRespA == PyStr(<<"a","b">>)
sRespB == PyStr(<<"b"," ","\t","c","d">>)
sRespC == PyStr(<<"x","y","z">>)
sJd == PyStr(<<"j","d">>)
sIntern == PyStr(<<"I","n","t","e","r","n">>)

\* Each field: the mappings that hold it in one of its forms, or lack it
SkillsField ==
    {EmptyMap, [skills |-> None], [skills |-> PyList(<<sPy>>)],
     [skills |-> PyList(<<sSql, PyInt(7), sBlank, sPy>>)]}
ProjectsField ==
    {EmptyMap, [projects |-> PyList(<<sProjA>>)],
     [projects |-> PyList(<<sBlank, sProjB, sProjA>>)]}
YearsField ==
    {EmptyMap, [experience_years |-> None], [experience_years |-> PyInt(2)],
     [experience_years |-> PyInt(5)], [experience_years |-> PyInt(-2)]}
TextField ==
    {EmptyMap, [parsed_text |-> sResume],
     [parsed_text |-> None, raw_text |-> sResume2]}
RequiredField ==
    {EmptyMap, [required_skills |-> None]}
    \cup {[required_skills |-> l] : l \in ListsUpTo({sPy, sSql}, MaxList)}
PreferredField ==
    {EmptyMap, [preferred_skills |-> PyList(<<sAws>>)],
     [preferred_skills |-> PyList(<<sBlank, sSql, sPy>>)]}
ResponsibilitiesField ==
    {EmptyMap, [responsibilities |-> None], [responsibilities |-> PyList(<<sRespA>>)],
     [responsibilities |-> PyList(<<sRespB, sBlank, sRespC>>)]}
LevelField ==
    {EmptyMap, [experience_level |-> None], [experience_level |-> sEmpty],
     [experience_level |-> sRange], [experience_level |-> sSenior],
     [experience_level |-> sUnknown], [experience_level |-> PyInt(0)],
     [experience_level |-> sPlus], [experience_level |-> sIntern],
     [experience_level |-> PyInt(3)], [experience_level |-> PyFloat(250)]}
ParsedField ==
    {EmptyMap, [parsed |-> None], [parsed |-> PyDict(EmptyMap)],
     [parsed |-> PyDict([experience_level |-> sPlus])],
     [parsed |-> PyDict([experience_level |-> None, raw_text |-> sJd])]}

Product2(A, B) == {Merge(a, b) : a \in A, b \in B}

\* A candidate with the skills Python and SQL and nothing else, and a job
\* that requires Python, SQL and AWS and nothing else
sPython == PyStr(<<"P","y","t","h","o","n">>)
sSQL == PyStr(<<"S","Q","L">>)
sAWS == PyStr(<<"A","W","S">>)
ExampleCandidate ==
    [skills |-> PyList(<<sPython, sSQL>>), parsed_text |-> sEmpty,
     projects |-> PyList(<<>>), experience_years |-> PyInt(0)]
ExampleJob ==
    [required_skills |-> PyList(<<sPython, sSQL, sAWS>>), preferred_skills |-> PyList(<<>>),
     responsibilities |-> PyList(<<>>)]

\* The candidates and jobs of the scorer's specification
ScoreCandidates ==
    Product2(Product2(SkillsField, ProjectsField), Product2(YearsField, TextField))
    \cup {ExampleCandidate}
ScoreJobs ==
    Product2(Product2(RequiredField, PreferredField),
             Product2(ResponsibilitiesField, {EmptyMap, [experience_level |-> sRange],
                                              [parsed |-> None]}))
    \cup LevelField
    \cup {ExampleJob}
    \cup Product2(Product2(RequiredField, PreferredField),
                  {[responsibilities |-> PyList(<<sRespA, PyInt(7)>>)]})

\* The candidates and jobs of the specification of concurrent calls
CallCandidates ==
    {[skills |-> PyList(<<sPy, sSql>>), experience_years |-> PyInt(2),
      parsed_text |-> sResume, projects |-> PyList(<<sProjA>>)]}
CallJobBase ==
    [required_skills |-> PyList(<<sPy, sAws>>), responsibilities |-> PyList(<<sRespA>>)]
CallJobs ==
    Product2({CallJobBase},
             Product2({EmptyMap}, ParsedField \ {[parsed |-> PyDict(EmptyMap)]})
             \cup {[experience_level |-> sEmpty,
                    parsed |-> PyDict([experience_level |-> sPlus])],
                   [experience_level |-> sRange,
                    parsed |-> PyDict([experience_level |-> sPlus])],
                   [experience_level |-> sRange, parsed |-> None],
                   [experience_level |-> sRange, parsed |-> None, raw_text |-> sJd]})

\* The candidates and jobs of the project relevance scorer's specification
RelevanceCandidates ==
    {[projects |-> None]}
    \cup {[projects |-> l] : l \in ListsUpTo({sProjA, sProjB, sBlank, PyInt(7)}, MaxList)}
RelevanceJobs ==
    {[responsibilities |-> None]}
    \cup {[responsibilities |-> l] : l \in ListsUpTo({sRespA, sRespB, sBlank}, MaxList)}

\* The candidates and jobs of the specification of a candidate who grows
\* between two calls, and what the candidate can add
GrowthCandidates ==
    Product2(Product2({EmptyMap, [skills |-> PyList(<<sPy>>)]},
                      {EmptyMap, [projects |-> PyList(<<>>)],
                       [projects |-> PyList(<<sProjB>>)]}),
             Product2({EmptyMap, [experience_years |-> PyInt(0)],
                       [experience_years |-> PyInt(2)]},
                      {[parsed_text |-> sResume]}))
GrowthJobs ==
    Product2({[required_skills |-> PyList(<<sPy, sSql>>),
               preferred_skills |-> PyList(<<sAws>>)]},
             Product2({[responsibilities |-> PyList(<<sRespA, sRespB>>)],
                       [responsibilities |-> PyList(<<sRespC, sBlank>>)]},
                      {EmptyMap, [experience_level |-> sRange]}))
NewProjects == {sProjA, sRespA, sRespB, sBlank}
NewSkills == {sSql, sAws, sPy, sBlank}
MoreYears == {0, 2, 3, 5}

\* The experience levels of the normalizer's specification: texts put
\* together from a prefix, a numeric expression and a suffix, and values
\* that are not text
LevelPrefixes ==
    {<<>>,
     <<" ">>,
     <<"S", "e", "n", "i", "o", "r", ",", " ">>,
     <<"a">>,
     <<"l", "e", "a", "d", " ">>}
LevelCores ==
    {<<>>,
     <<"3", "-", "5">>,
     <<"3", " ", "-", " ", "5">>,
     <<"1", "0", "-", "2", "1">>,
     <<"5", "+">>,
     <<"5", " ", "+">>,
     <<"1", "2">>,
     <<"2", "+", " ", "y", "e", "a", "r", "s">>}
LevelSuffixes ==
    {<<>>,
     <<" ">>,
     <<" ", "m", "i", "d">>,
     <<"+">>,
     <<"-", "9">>}
sYears ==
    PyStr(<<"e", "x", "p", "e", "r", "i", "e", "n", "c", "e", ":", " ", "3", "-", "5", " ",
            "y", "e", "a", "r", "s">>)
LevelWords ==
    {<<>>, KwIntern, KwEntry, KwJunior, KwMid, KwSenior, KwLead, KwPrincipal,
     <<"S", "E", "N", "I", "O", "R">>, <<"M", "i", "d">>, <<"n", "o">>}
ExperienceLevels ==
    {PyStr(p \o c \o s) : p \in LevelPrefixes, c \in LevelCores, s \in LevelSuffixes}
    \cup {PyStr(p \o <<" ">> \o s) : p, s \in LevelWords}
    \cup {PyStr(k) : k \in {KwIntern, KwEntry, KwJunior, KwMid, KwSenior, KwLead,
                            KwPrincipal}}
    \cup {None, sSenior, sUnknown, sYears, PyInt(0), PyInt(3), PyInt(-1), PyFloat(250),
          PyFloat(299), PyFloat(-250)}
ExperienceJobs == {[experience_level |-> x] : x \in ExperienceLevels}

\* The texts of the similarity's and the normalizer's specifications, each
\* as the one project of a candidate and as the one responsibility of a job
sSimA == PyStr(<<"b","a","c","b">>)
sSimB == PyStr(<<" ","A","B"," ">>)
sSimC == PyStr(<<"a"," ","\t","B">>)
SimilarityTexts ==
    {None, sEmpty, sBlank, sRespA, sSimA, sSimB, sSimC, sProjA, sProjB, sRespB, sRespC}
SimilarityCandidates == {[projects |-> PyList(<<x>>)] : x \in SimilarityTexts}
SimilarityJobs == {[responsibilities |-> PyList(<<x>>)] : x \in SimilarityTexts}

\* The texts of the normalizer's specification, each as the one project of
\* a candidate: None and every text of at most MaxText characters
TextsUpTo(S, n) == UNION {{PyStr(l) : l \in [1..k -> S]} : k \in 0..n}
CleanCandidates ==
    {[projects |-> PyList(<<x>>)] : x \in {None} \cup TextsUpTo({"A", "b", " ", "\t"}, MaxText)}

\* The skills that skill extraction hands to the self-analysis
SkillInfos ==
    {EmptyMap}
    \cup {[required_skills |-> l, preferred_skills |-> PyList(<<sAws>>)] :
             l \in ListsUpTo({sPy, sSql}, MaxList)}

\* The replies of the generative model
tText == [t |-> "text"]
tOpen == [t |-> "{"]
tClose == [t |-> "}"]
Member(k, v) == [t |-> "member", k |-> k, v |-> v]
GoodComponents ==
    PyDict([required_coverage |-> PyFloat(10000), preferred_coverage |-> PyFloat(5000),
            semantic_fit |-> PyFloat(7550), project_relevance |-> PyInt(0),
            experience_fit |-> PyInt(80)])
Reply(text) == [raises |-> FALSE, text |-> text]
Replies ==
    {[raises |-> TRUE],
     Reply(<<tText>>),
     Reply(<<tOpen, tText, tClose>>),
     Reply(<<tText, tOpen, Member("score", PyInt(70)), tClose>>),
     Reply(<<tOpen, Member("components", GoodComponents), tClose>>),
     Reply(<<tText, tOpen, Member("score", PyFloat(8125)),
             Member("components", GoodComponents),
             Member("explanations", PyList(<<PyStr(<<"strong match">>)>>)), tClose, tText>>),
     Reply(<<tOpen, Member("score", PyInt(150)),
             Member("components", PyDict([semantic_fit |-> PyStr(<<"high">>)])), tClose>>)}

\* The recruiter's requests: the names and bytes of the uploads, the mapping
\* the resume parser returns for each, the job document, the stored chats
Filenames == {"cv.pdf", "b.pdf"}
Upload(filename, bytes) == [filename |-> filename, bytes |-> bytes]
sMailA == PyStr(<<"A","@","x">>)
sMailB == PyStr(<<"b","@","x">>)
sJobId == PyStr(<<"J","1">>)
sOtherJobId == PyStr(<<"J","2">>)
Resumes ==
    [b \in {"A", "B", "N"} |->
        CASE b = "A" -> [email |-> sMailA, skills |-> PyList(<<sPy, sAws>>),
                         projects |-> PyList(<<sProjA>>), experience_years |-> PyInt(5),
                         raw_text |-> sResume]
          [] b = "B" -> [email |-> sMailB, skills |-> PyList(<<>>),
                         projects |-> PyList(<<>>), experience_years |-> PyInt(0),
                         raw_text |-> sResume2]
          [] OTHER -> [email |-> sEmpty, skills |-> PyList(<<>>),
                       projects |-> PyList(<<>>), experience_years |-> PyInt(0),
                       raw_text |-> sResume]]
BatchFiles ==
    {<<Upload("cv.pdf", "A")>>,
     <<Upload("cv.pdf", "B"), Upload("b.pdf", "N")>>}
SingleFiles == {<<Upload("cv.pdf", "A")>>, <<Upload("b.pdf", "N")>>}
RequestJobs ==
    Product2({CallJobBase},
             {[_id |-> sJobId],
              [_id |-> sJobId, parsed |-> None],
              [_id |-> sJobId, parsed |-> PyDict([experience_level |-> sPlus])]})
RequestReplies ==
    {[raises |-> TRUE],
     Reply(<<tOpen, Member("score", PyInt(45)), Member("components", GoodComponents), tClose>>),
     Reply(<<tOpen, Member("score", PyStr(<<"h","i","g","h">>)),
             Member("components", GoodComponents), tClose>>)}
ChatStores ==
    {<<>>,
     <<[_id |-> 1, job_role_id |-> sOtherJobId]>>,
     <<[_id |-> 1, job_role_id |-> sOtherJobId], [_id |-> 2, job_role_id |-> sJobId]>>}

(***************************************************************************)
(* State                                                                   *)
(***************************************************************************)
VARIABLES
    _GENAI_KEY,     \* module level: TRUE iff the Gemini key is configured
    candidate,      \* the candidate mapping the callers pass
    job_role,       \* the job mapping the callers pass (one shared object)
    candidate_in,   \* history: candidate as constructed
    job_role_in,    \* history: job_role as constructed
    calls,          \* per call: its position, arguments, locals and result
    requests,       \* per HTTP request of the recruiter: its position and locals
    chats,          \* the recruiter's chat documents, in the order of the store
    tmp             \* the directory /tmp: what each filename leads to

vars == <<_GENAI_KEY, candidate, job_role, candidate_in, job_role_in, calls, requests, chats, tmp>>

Calls == 1..NumCalls

Idle ==
    [pc |-> "idle", entry |-> "none", use_llm |-> FALSE, level |-> None,
     threshold |-> DefaultThreshold,
     resp |-> [raises |-> FALSE, text |-> <<>>], oracle_calls |-> 0,
     det_calls |-> 0, ret |-> Raise("none")]

InitWith(keys, candidates, jobs) ==
    /\ _GENAI_KEY \in keys
    /\ candidate \in candidates
    /\ job_role \in jobs
    /\ candidate_in = candidate
    /\ job_role_in = job_role
    /\ calls = [c \in Calls |-> Idle]
    /\ requests = [c \in Calls |-> NoRequest]
    /\ chats = <<>>
    /\ tmp = [n \in Filenames |-> NoFile]

Init == InitWith(BOOLEAN, CallCandidates, CallJobs)

(***************************************************************************)
(* Operations.  A call interleaves with the others between its accesses    *)
(* to the shared job mapping.                                              *)
(***************************************************************************)
\* Line 220: where a call goes after line 216-217
Dispatch(use_llm) == IF use_llm /\ _GENAI_KEY THEN "oracle" ELSE "det_read"

\* A caller enters compute_match_score(candidate, job_role, use_llm);
\* calls are numbered in the order they start
Call(c, use_llm) ==
    /\ calls[c].pc = "idle"
    /\ \A d \in 1..(c - 1) : calls[d].pc # "idle"
    /\ calls' = [calls EXCEPT ![c].pc = "normalize", ![c].entry = "compute_match_score",
                              ![c].use_llm = use_llm]
    /\ UNCHANGED <<_GENAI_KEY, candidate, job_role, candidate_in, job_role_in, requests, chats, tmp>>

\* A caller enters deterministic_score(candidate, job_role) directly
CallDeterministic(c) ==
    /\ calls[c].pc = "idle"
    /\ \A d \in 1..(c - 1) : calls[d].pc # "idle"
    /\ calls' = [calls EXCEPT ![c].pc = "det_read", ![c].entry = "deterministic_score"]
    /\ UNCHANGED <<_GENAI_KEY, candidate, job_role, candidate_in, job_role_in, requests, chats, tmp>>

\* Line 216: the test
Normalize(c) ==
    /\ calls[c].pc = "normalize"
    /\ LET missing == LevelMissing(job_role)
       IN  calls' = [calls EXCEPT
                       ![c].pc = IF ~missing.ok THEN "raised"
                                 ELSE IF missing.v THEN "copy_level"
                                 ELSE Dispatch(calls[c].use_llm),
                       ![c].ret = IF ~missing.ok THEN missing ELSE @]
    /\ UNCHANGED <<_GENAI_KEY, candidate, job_role, candidate_in, job_role_in, requests, chats, tmp>>

\* Line 217: the write to the caller's job mapping
WriteLevel(c) ==
    /\ calls[c].pc = "copy_level"
    /\ job_role' = CopyLevel(job_role)
    /\ calls' = [calls EXCEPT ![c].pc = Dispatch(calls[c].use_llm)]
    /\ UNCHANGED <<_GENAI_KEY, candidate, candidate_in, job_role_in, requests, chats, tmp>>

\* Lines 221-225: gemini_score, its exceptions swallowed
Answered(call, resp, llm) ==
    [call EXCEPT !.pc = IF llm.ok THEN "returned" ELSE "det_read",
                 !.resp = resp,
                 !.oracle_calls = @ + 1,
                 !.ret = IF llm.ok THEN llm ELSE @]
Oracle(c, resp) ==
    /\ calls[c].pc = "oracle"
    /\ calls' = [calls EXCEPT ![c] = Answered(@, resp, gemini_score(_GENAI_KEY, candidate,
                                                                    job_role, resp))]
    /\ UNCHANGED <<_GENAI_KEY, candidate, job_role, candidate_in, job_role_in, requests, chats, tmp>>

\* deterministic_score up to job_role.get("experience_level") at line 99
ReadLevel(c) ==
    /\ calls[c].pc = "det_read"
    /\ calls' = [calls EXCEPT ![c].pc = "det_score",
                              ![c].level = Get(job_role, "experience_level"),
                              ![c].det_calls = @ + 1]
    /\ UNCHANGED <<_GENAI_KEY, candidate, job_role, candidate_in, job_role_in, requests, chats, tmp>>

\* deterministic_score from there to its return
Finish(call, r) == [call EXCEPT !.pc = IF r.ok THEN "returned" ELSE "raised", !.ret = r]
Score(c) ==
    /\ calls[c].pc = "det_score"
    /\ calls' = [calls EXCEPT ![c] = Finish(@, ScoreWithLevel(candidate, job_role,
                                                                calls[c].level))]
    /\ UNCHANGED <<_GENAI_KEY, candidate, job_role, candidate_in, job_role_in, requests, chats, tmp>>

\* A caller enters project_relevance_score(projects, responsibilities,
\* threshold) with the candidate's projects and the job's responsibilities
\* as they are; the function reads no shared state after its arguments are
\* bound
Outcome(call, threshold, r) ==
    [call EXCEPT !.pc = IF r.ok THEN "returned" ELSE "raised",
                 !.entry = "project_relevance_score", !.threshold = threshold, !.ret = r]
CallRelevance(c, threshold) ==
    /\ calls[c].pc = "idle"
    /\ calls' = [calls EXCEPT ![c] = Outcome(@, threshold, project_relevance_score(
                                                    Get(candidate, "projects"),
                                                    Get(job_role, "responsibilities"),
                                                    threshold))]
    /\ UNCHANGED <<_GENAI_KEY, candidate, job_role, candidate_in, job_role_in, requests, chats, tmp>>

\* A caller enters parse_experience_to_int(exp) with the job's level
Normalization(call, years) ==
    [call EXCEPT !.pc = "returned", !.entry = "parse_experience_to_int", !.ret = Ok(years)]
CallParse(c) ==
    /\ calls[c].pc = "idle"
    /\ calls' = [calls EXCEPT ![c] = Normalization(@, parse_experience_to_int(
                                                         Get(job_role, "experience_level")))]
    /\ UNCHANGED <<_GENAI_KEY, candidate, job_role, candidate_in, job_role_in, requests, chats, tmp>>

\* A caller enters _similarity(a, b) with the project and the
\* responsibility, in either order
Compared(call, a, b, ratio) ==
    [call EXCEPT !.pc = "returned", !.entry = "_similarity",
                 !.ret = Ok([a |-> a, b |-> b, ratio |-> ratio])]
CallSimilarity(c, a, b) ==
    /\ calls[c].pc = "idle"
    /\ calls' = [calls EXCEPT ![c] = Compared(@, a, b, _similarity(a, b))]
    /\ UNCHANGED <<_GENAI_KEY, candidate, job_role, candidate_in, job_role_in, requests, chats, tmp>>

\* A caller enters _clean(s) with the project
Cleaned(call, r) ==
    [call EXCEPT !.pc = IF r.ok THEN "returned" ELSE "raised", !.entry = "_clean", !.ret = r]
CallClean(c) ==
    /\ calls[c].pc = "idle"
    /\ calls' = [calls EXCEPT ![c] = Cleaned(@, _clean(candidate["projects"].v[1]))]
    /\ UNCHANGED <<_GENAI_KEY, candidate, job_role, candidate_in, job_role_in, requests, chats, tmp>>

\* A caller enters run_self_analysis; parse_resume has returned the
\* candidate and skill extraction the job mapping
Analysed(call, r) ==
    [call EXCEPT !.pc = IF r.ok THEN "returned" ELSE "raised",
                 !.entry = "run_self_analysis", !.ret = r]
CallSelfAnalysis(c, resp) ==
    /\ calls[c].pc = "idle"
    /\ calls' = [calls EXCEPT ![c] = Analysed(@, run_self_analysis(_GENAI_KEY, candidate,
                                                                     job_role, resp))]
    /\ UNCHANGED <<_GENAI_KEY, candidate, job_role, candidate_in, job_role_in, requests, chats, tmp>>

\* Between the first call's return and the second call's start the caller's
\* candidate gains one project, one skill or years of experience
Between ==
    /\ calls[1].pc \in {"returned", "raised"}
    /\ calls[2].pc = "idle"
    /\ candidate = candidate_in
Listed(x) == IF IsList(x) THEN x.v ELSE <<>>
Inserted(l, i, x) == SubSeq(l, 1, i) \o <<x>> \o SubSeq(l, i + 1, Len(l))

AddProject(p, i) ==
    /\ Between
    /\ Len(Listed(Get(candidate, "projects"))) <= MaxList
    /\ i <= Len(Listed(Get(candidate, "projects")))
    /\ candidate' = SetItem(candidate, "projects",
                            PyList(Inserted(Listed(Get(candidate, "projects")), i, p)))
    /\ UNCHANGED <<_GENAI_KEY, job_role, candidate_in, job_role_in, calls, requests, chats, tmp>>

AddSkill(sk) ==
    /\ Between
    /\ Len(Listed(Get(candidate, "skills"))) <= MaxList
    /\ candidate' = SetItem(candidate, "skills",
                            PyList(Append(Listed(Get(candidate, "skills")), sk)))
    /\ UNCHANGED <<_GENAI_KEY, job_role, candidate_in, job_role_in, calls, requests, chats, tmp>>

GainExperience(years) ==
    /\ Between
    /\ years > CandidateYears(candidate)
    /\ candidate' = SetItem(candidate, "experience_years", PyInt(years))
    /\ UNCHANGED <<_GENAI_KEY, job_role, candidate_in, job_role_in, calls, requests, chats, tmp>>

(***************************************************************************)
(* match_router.py: the requests.  score_single and shortlist_batch are    *)
(* coroutines of one event loop: each runs alone from one await to the     *)
(* next, and awaits the bytes of an upload after opening the temporary     *)
(* file.  shortlist_candidate is a plain function and runs in a thread of  *)
(* the pool, beside the loop and beside other threads.                     *)
(***************************************************************************)
\* Requests are numbered in the order of their arrival
Arrives(r) == \A q \in Calls : q < r => requests[q].pc # "idle"
Running(q) == requests[q].kind \in {"single", "batch"} /\ requests[q].pc \in {"ensure", "open"}
LoopFree(r) == \A q \in Calls \ {r} : ~Running(q)

\* Lines 39-42 of _get_or_create_shortlist_chat: the first chat listed whose
\* job_role_id is the job's _id, 0 for none
FirstMatch(list, job) ==
    LET S == {k \in 1..Len(list) : list[k].job_role_id = Get(job, "_id")}
    IN  IF S = {} THEN 0 ELSE list[CHOOSE k \in S : \A j \in S : k <= j]._id

\* shortlist_batch, lines 138-151: the job is read and the chats are listed
ArriveBatch(r, files) ==
    /\ requests[r].pc = "idle"
    /\ Arrives(r)
    /\ LoopFree(r)
    /\ requests' = [requests EXCEPT ![r] =
           [NoRequest EXCEPT !.kind = "batch", !.pc = "ensure", !.files = files, !.i = 1,
                             !.job = job_role, !.found = FirstMatch(list_for_user(chats), job_role)]]
    /\ UNCHANGED <<_GENAI_KEY, candidate, job_role, candidate_in, job_role_in, calls, chats, tmp>>

\* shortlist_candidate, lines 344-356: the job is read and the chats are listed
ArriveManual(r, action) ==
    /\ requests[r].pc = "idle"
    /\ Arrives(r)
    /\ requests' = [requests EXCEPT ![r] =
           [NoRequest EXCEPT !.kind = "manual", !.pc = "ensure", !.action = action,
                             !.job = job_role, !.found = FirstMatch(list_for_user(chats), job_role)]]
    /\ UNCHANGED <<_GENAI_KEY, candidate, job_role, candidate_in, job_role_in, calls, chats, tmp>>

\* Lines 43-50 of _get_or_create_shortlist_chat: the chat found by the
\* listing is returned, or a chat is created
EnsureChat(r) ==
    /\ requests[r].pc = "ensure"
    /\ chats' = IF requests[r].found # 0 THEN chats
                ELSE create_chat(chats, Get(requests[r].job, "_id"))
    /\ requests' = [requests EXCEPT ![r] =
           [@ EXCEPT !.chat_id = IF requests[r].found # 0 THEN requests[r].found
                                   ELSE chats'[Len(chats')]._id,
                     !.pc = IF requests[r].kind = "batch" THEN "open" ELSE "record"]]
    /\ UNCHANGED <<_GENAI_KEY, candidate, job_role, candidate_in, job_role_in, calls, tmp>>

\* score_single, lines 64-69: the job is read
ArriveSingle(r, files) ==
    /\ requests[r].pc = "idle"
    /\ Arrives(r)
    /\ LoopFree(r)
    /\ requests' = [requests EXCEPT ![r] =
           [NoRequest EXCEPT !.kind = "single", !.pc = "open", !.files = files, !.i = 1,
                             !.job = job_role]]
    /\ UNCHANGED <<_GENAI_KEY, candidate, job_role, candidate_in, job_role_in, calls, chats, tmp>>

\* Lines 69-71 and 156-158: open(tmp, "wb"), then await file.read()
Open(r) ==
    /\ requests[r].pc = "open"
    /\ tmp' = Opened(tmp, requests[r].files[requests[r].i].filename, <<r, requests[r].i>>)
    /\ requests' = [requests EXCEPT ![r] =
           [@ EXCEPT !.pc = "read",
                     !.fd = tmp'[requests[r].files[requests[r].i].filename].inode]]
    /\ UNCHANGED <<_GENAI_KEY, candidate, job_role, candidate_in, job_role_in, calls, chats>>

Resumed(r, out) ==
    /\ requests' = [requests EXCEPT ![r] = out.req]
    /\ tmp' = out.dir
    /\ UNCHANGED <<_GENAI_KEY, candidate, job_role, candidate_in, job_role_in, calls, chats>>

\* shortlist_batch, lines 158-326, resumed with the bytes of the upload
ResumeBatch(r, resp) ==
    /\ requests[r].pc = "read"
    /\ requests[r].kind = "batch"
    /\ LoopFree(r)
    /\ Resumed(r, BatchFile(Saw(requests[r], Stored(requests[r], tmp)),
                            Removed(tmp, requests[r].files[requests[r].i].filename),
                            _GENAI_KEY,
                            parse_resume(Stored(requests[r], tmp),
                                         requests[r].files[requests[r].i].filename, Resumes),
                            resp))

\* score_single, lines 71-127, resumed with the bytes of the upload
ResumeSingle(r, resp) ==
    /\ requests[r].pc = "read"
    /\ requests[r].kind = "single"
    /\ LoopFree(r)
    /\ Resumed(r, SingleFile(Saw(requests[r], Stored(requests[r], tmp)),
                             Removed(tmp, requests[r].files[requests[r].i].filename),
                             _GENAI_KEY,
                             parse_resume(Stored(requests[r], tmp),
                                          requests[r].files[requests[r].i].filename, Resumes),
                             resp))

\* shortlist_candidate, lines 359-399: one chat message for either action
Record(r) ==
    /\ requests[r].pc = "record"
    /\ requests' = [requests EXCEPT ![r] =
           [@ EXCEPT !.pc = "returned",
                     !.messages = Append(@, [file |-> 0, action |-> requests[r].action,
                                             chat_id |-> requests[r].chat_id])]]
    /\ UNCHANGED <<_GENAI_KEY, candidate, job_role, candidate_in, job_role_in, calls, chats, tmp>>

Next ==
    \E c \in Calls :
        \/ \E use_llm \in BOOLEAN : Call(c, use_llm)
        \/ CallDeterministic(c)
        \/ Normalize(c)
        \/ WriteLevel(c)
        \/ \E resp \in Replies : Oracle(c, resp)
        \/ ReadLevel(c)
        \/ Score(c)

Spec == Init /\ [][Next]_vars

(***************************************************************************)
(* The deterministic scorer alone: one direct call, on a wider range of    *)
(* candidates and jobs                                                     *)
(***************************************************************************)
InitScore == InitWith({FALSE}, ScoreCandidates, ScoreJobs)

NextScore == CallDeterministic(1) \/ ReadLevel(1) \/ Score(1)

SpecScore == InitScore /\ [][NextScore]_vars

(***************************************************************************)
(* The experience normalizer alone, on levels of every form                *)
(***************************************************************************)
InitExperience == InitWith({FALSE}, {EmptyMap}, ExperienceJobs)

NextExperience == CallParse(1)

SpecExperience == InitExperience /\ [][NextExperience]_vars

(***************************************************************************)
(* The similarity alone, on a project and a responsibility                 *)
(***************************************************************************)
InitSimilarity == InitWith({FALSE}, SimilarityCandidates, SimilarityJobs)

NextSimilarity ==
    \E c \in Calls :
        \/ CallSimilarity(c, candidate["projects"].v[1], job_role["responsibilities"].v[1])
        \/ CallSimilarity(c, job_role["responsibilities"].v[1], candidate["projects"].v[1])

SpecSimilarity == InitSimilarity /\ [][NextSimilarity]_vars

(***************************************************************************)
(* The text normalizer alone                                               *)
(***************************************************************************)
InitClean == InitWith({FALSE}, CleanCandidates, {EmptyMap})

NextClean == \E c \in Calls : CallClean(c)

SpecClean == InitClean /\ [][NextClean]_vars

(***************************************************************************)
(* The project relevance scorer alone, on lists of any values              *)
(***************************************************************************)
InitRelevance == InitWith({FALSE}, RelevanceCandidates, RelevanceJobs)

NextRelevance == \E threshold \in Thresholds : CallRelevance(1, threshold)

SpecRelevance == InitRelevance /\ [][NextRelevance]_vars

(***************************************************************************)
(* The self-analysis alone                                                 *)
(***************************************************************************)
InitSelfAnalysis == InitWith(BOOLEAN, ScoreCandidates, SkillInfos)

NextSelfAnalysis == \E c \in Calls, resp \in Replies : CallSelfAnalysis(c, resp)

SpecSelfAnalysis == InitSelfAnalysis /\ [][NextSelfAnalysis]_vars

(***************************************************************************)
(* Two calls, of the project relevance scorer or of the deterministic      *)
(* scorer, on a candidate who grows between them                           *)
(***************************************************************************)
InitGrowth == InitWith({FALSE}, GrowthCandidates, GrowthJobs)

NextGrowth ==
    \/ \E c \in 1..2 :
          \/ \E threshold \in Thresholds : CallRelevance(c, threshold)
          \/ CallDeterministic(c)
          \/ ReadLevel(c)
          \/ Score(c)
    \/ \E p \in NewProjects, i \in 0..(MaxList + 1) : AddProject(p, i)
    \/ \E sk \in NewSkills : AddSkill(sk)
    \/ \E years \in MoreYears : GainExperience(years)

SpecGrowth == InitGrowth /\ [][NextGrowth]_vars

\* The recruiter's requests for one job role
InitRequests ==
    /\ _GENAI_KEY \in BOOLEAN
    /\ candidate = EmptyMap
    /\ job_role \in RequestJobs
    /\ candidate_in = candidate
    /\ job_role_in = job_role
    /\ calls = [c \in Calls |-> Idle]
    /\ requests = [c \in Calls |-> NoRequest]
    /\ chats \in ChatStores
    /\ tmp = [n \in Filenames |-> NoFile]
NextRequests ==
    \E r \in Calls :
        \/ \E files \in BatchFiles : ArriveBatch(r, files)
        \/ \E files \in SingleFiles : ArriveSingle(r, files)
        \/ \E action \in {"shortlist", "reject"} : ArriveManual(r, action)
        \/ EnsureChat(r)
        \/ Open(r)
        \/ \E resp \in RequestReplies : ResumeBatch(r, resp)
        \/ \E resp \in RequestReplies : ResumeSingle(r, resp)
        \/ Record(r)
SpecRequests == InitRequests /\ [][NextRequests]_vars

(***************************************************************************)
(* Claims                                                                  *)
(***************************************************************************)
Done(c) == calls[c].pc \in {"returned", "raised"}
Returned(c) == calls[c].pc = "returned"
Method(c) == calls[c].ret.v["method"].v[1]
Deterministic(c) == Returned(c) /\ Method(c) = "deterministic"
Component(c, k) == calls[c].ret.v["components"].v[k].v
ComponentKeys ==
    {"required_coverage", "preferred_coverage", "semantic_fit", "project_relevance",
     "experience_fit"}

\* C1: the score of every deterministic result is round(0.35*required_coverage
\* + 0.15*preferred_coverage + 0.15*semantic_fit + 0.20*project_relevance
\* + 0.15*experience_fit, 2) of the components of the same result, and the
\* weights are constants that sum to 1.0
C1_WeightedSum ==
    /\ WeightRequired + WeightPreferred + WeightSemantic + WeightProjects
          + WeightExperience = 100
    /\ \A c \in Calls :
          Deterministic(c) =>
             calls[c].ret.v["score"].v =
                RoundDiv(35 * Component(c, "required_coverage")
                         + 15 * Component(c, "preferred_coverage")
                         + 15 * Component(c, "semantic_fit")
                         + 20 * Component(c, "project_relevance")
                         + 15 * Component(c, "experience_fit"), 100)

\* A deterministic result whose five components differ from one another in
\* weight-relevant ways and whose weighted sum needs rounding
C1_Witness ==
    \E c \in Calls :
        /\ Deterministic(c)
        /\ Component(c, "project_relevance") # Component(c, "experience_fit")
        /\ Component(c, "required_coverage") # Component(c, "preferred_coverage")
        /\ (35 * Component(c, "required_coverage")
            + 15 * Component(c, "preferred_coverage")
            + 15 * Component(c, "semantic_fit")
            + 20 * Component(c, "project_relevance")
            + 15 * Component(c, "experience_fit")) % 100 # 0

\* The ways an oracle attempt fails that the claims name: the generate call
\* raises, the reply holds no JSON object, the extracted text is not valid
\* JSON, or the payload lacks "score" or "components"
ReplySlice(resp) == SubSeq(resp.text, Find(resp.text, "{"), RFind(resp.text, "}"))
NoJsonObject(resp) ==
    ~resp.raises /\ (Find(resp.text, "{") = 0 \/ RFind(resp.text, "}") = 0)
InvalidJson(resp) ==
    ~resp.raises /\ ~NoJsonObject(resp) /\ ~JsonLoads(ReplySlice(resp)).ok
LacksField(resp, k) ==
    /\ ~resp.raises /\ ~NoJsonObject(resp) /\ ~InvalidJson(resp)
    /\ k \notin DOMAIN JsonLoads(ReplySlice(resp)).v
ReplyFails(resp) ==
    \/ resp.raises
    \/ NoJsonObject(resp)
    \/ InvalidJson(resp)
    \/ LacksField(resp, "score")
    \/ LacksField(resp, "components")

\* C2: in every execution of compute_match_score the oracle is attempted
\* exactly once when use_llm is true and a key is configured and never
\* otherwise; deterministic_score runs at most once, and only if the oracle
\* was not attempted or its attempt failed; the result returned is the
\* unmodified output of exactly one of the two scorers
C2_OneOracleThenOneDeterministic ==
    \A c \in Calls :
        (calls[c].entry = "compute_match_score" /\ Done(c)) =>
            /\ calls[c].oracle_calls = (IF calls[c].use_llm /\ _GENAI_KEY THEN 1 ELSE 0)
            /\ calls[c].det_calls <= 1
            /\ calls[c].det_calls = 1 =>
                  \/ calls[c].oracle_calls = 0
                  \/ ~gemini_score(_GENAI_KEY, candidate, job_role, calls[c].resp).ok
            /\ Returned(c) =>
                  IF calls[c].det_calls = 0
                  THEN calls[c].ret = gemini_score(_GENAI_KEY, candidate, job_role,
                                                   calls[c].resp)
                  ELSE calls[c].ret = deterministic_score(candidate, job_role)

\* C3: whenever the oracle attempt fails in one of the named ways,
\* compute_match_score raises nothing and returns the deterministic scorer's
\* result, with method "deterministic"
C3_FallbackOnOracleFailure ==
    \A c \in Calls :
        (calls[c].oracle_calls = 1 /\ ReplyFails(calls[c].resp)) =>
            /\ calls[c].pc \in {"det_read", "det_score", "returned"}
            /\ Returned(c) =>
                  /\ Method(c) = "deterministic"
                  /\ calls[c].det_calls = 1
                  /\ calls[c].ret = deterministic_score(candidate, job_role)

\* A call whose oracle reply had a score but no components, and which
\* returned the deterministic result
C3_Witness ==
    \E c \in Calls :
        /\ Returned(c)
        /\ calls[c].oracle_calls = 1
        /\ LacksField(calls[c].resp, "components")
        /\ ~LacksField(calls[c].resp, "score")
        /\ Method(c) = "deterministic"


\* A complete breakdown: score, the five components, explanations, method
Number(x) == IsInt(x) \/ IsFloat(x)
Hundredths(x) == IF IsInt(x) THEN 100 * x.v ELSE x.v
InRange(x) == Number(x) /\ Hundredths(x) >= 0 /\ Hundredths(x) <= 10000
Complete(result) ==
    /\ {"score", "components", "explanations", "method"} \subseteq DOMAIN result
    /\ Number(result["score"])
    /\ IsDict(result["components"])
    /\ DOMAIN result["components"].v = ComponentKeys
    /\ \A k \in ComponentKeys : Number(result["components"].v[k])
    /\ IsList(result["explanations"])
    /\ IsStr(result["method"])

\* C4: deterministic_score never raises: with any subset of the candidate's
\* and the job's fields absent or null and experience_level any text, it
\* returns a complete breakdown
C4_NeverRaises ==
    \A c \in Calls :
        calls[c].entry = "deterministic_score" =>
            /\ calls[c].pc # "raised"
            /\ Returned(c) => Complete(calls[c].ret.v)

\* The calls on the deterministic scoring path: deterministic_score
\* directly, or compute_match_score with the oracle disabled or unconfigured
DeterministicPath(c) ==
    \/ calls[c].entry = "deterministic_score"
    \/ calls[c].entry = "compute_match_score" /\ ~(calls[c].use_llm /\ _GENAI_KEY)

\* C5: two calls of the deterministic scoring path on the same candidate and
\* job end with identical results, also when one of them runs on the job
\* object after the other has run
C5_Determinism ==
    \A c, d \in Calls :
        (DeterministicPath(c) /\ DeterministicPath(d) /\ Done(c) /\ Done(d)) =>
            calls[c].ret = calls[d].ret

\* compute_match_score has written the level to the job, the later direct
\* call of deterministic_score has read the written level, and both returned
C5_Witness ==
    /\ DeterministicPath(1) /\ calls[1].entry = "compute_match_score"
    /\ calls[2].entry = "deterministic_score"
    /\ Deterministic(1) /\ Deterministic(2)
    /\ job_role # job_role_in
    /\ ~Truthy(Get(job_role_in, "experience_level"))
    /\ Truthy(calls[2].level)
    /\ Component(2, "experience_fit") # 5000

\* C6: after compute_match_score or deterministic_score returns, the
\* candidate mapping and the job mapping hold exactly the keys and values
\* they held before the call
C6_InputsUnchanged ==
    (\E c \in Calls : Returned(c)) =>
        /\ candidate = candidate_in
        /\ job_role = job_role_in

\* What a call returns or raises when it runs alone on the inputs as
\* constructed, given the reply its oracle attempt received
Alone(c) ==
    IF calls[c].entry = "deterministic_score"
    THEN deterministic_score(candidate_in, job_role_in)
    ELSE compute_match_score(_GENAI_KEY, candidate_in, job_role_in, calls[c].use_llm,
                             calls[c].resp).ret

\* C7: in every interleaving of calls that share the job mapping, each call
\* ends with the result it would end with if run alone
C7_SameAsAlone ==
    \A c \in Calls : Done(c) => calls[c].ret = Alone(c)

\* Call 2, started after call 1, read the job's level before call 1 wrote
\* it, and both have returned
C7_Witness ==
    /\ calls[1].entry = "compute_match_score" /\ Returned(1)
    /\ calls[2].entry = "deterministic_score" /\ Returned(2)
    /\ job_role # job_role_in
    /\ ~Truthy(calls[2].level)
    /\ calls[2].ret = Alone(2)
    /\ Component(2, "experience_fit") # 5000

\* C8: for a candidate with non-negative experience years, the components
\* of a deterministic result are exactly the five keys, each in [0,100], and
\* the score is in [0,100]
C8_Ranges ==
    \A c \in Calls :
        (Deterministic(c) /\ CandidateYears(candidate) >= 0) =>
            /\ DOMAIN calls[c].ret.v["components"].v = ComponentKeys
            /\ \A k \in ComponentKeys : InRange(calls[c].ret.v["components"].v[k])
            /\ InRange(calls[c].ret.v["score"])

\* A candidate with more years than the job's level asks for, capped at 100
C8_Witness ==
    \E c \in Calls :
        /\ Deterministic(c)
        /\ Get(candidate, "experience_years") = PyInt(5)
        /\ Get(job_role, "experience_level") = sRange
        /\ Component(c, "experience_fit") = 10000
        /\ Component(c, "required_coverage") = 0

\* C9: every result returned through the oracle path has a score in
\* [0,100], a components mapping of the five keys each in [0,100], an
\* explanations sequence and the oracle's method tag
C9_OracleShape ==
    \A c \in Calls :
        (Returned(c) /\ Method(c) = "gemini") =>
            /\ Complete(calls[c].ret.v)
            /\ InRange(calls[c].ret.v["score"])
            /\ \A k \in ComponentKeys : InRange(calls[c].ret.v["components"].v[k])

\* C10: project_relevance_score returns 1.0 whenever responsibilities is
\* empty, whatever projects is, and 0.0 whenever responsibilities is not
\* empty and projects is
C10_EmptyLists ==
    \A c \in Calls :
        calls[c].entry = "project_relevance_score" =>
            /\ ~Truthy(Get(job_role, "responsibilities")) => calls[c].ret = Ok(1000)
            /\ (Truthy(Get(job_role, "responsibilities"))
                   /\ ~Truthy(Get(candidate, "projects"))) => calls[c].ret = Ok(0)

\* Both lists are empty lists and the call returned 1.0
C10_Witness ==
    \E c \in Calls :
        /\ calls[c].entry = "project_relevance_score"
        /\ Get(job_role, "responsibilities") = PyList(<<>>)
        /\ Get(candidate, "projects") = PyList(<<>>)
        /\ calls[c].ret = Ok(1000)


\* The entries of a skill list that are strings and not blank, trimmed and
\* in lowercase, in the order of the list
Entries(x) == IF IsList(x) THEN x.v ELSE <<>>
IsSkill(e) == IsStr(e) /\ Strip(e.v) # <<>>
TrimmedLower(x) ==
    LET kept == SelectSeq(Entries(x), IsSkill)
    IN  [i \in 1..Len(kept) |-> Lower(Strip(kept[i].v))]
CandidateSet == {TrimmedLower(Get(candidate, "skills"))[i] :
                    i \in 1..Len(TrimmedLower(Get(candidate, "skills")))}
Share(list, hit(_)) ==
    RoundDiv(10000 * Cardinality({i \in 1..Len(list) : hit(list[i])}), Len(list))
InCandidateSet(skill) == skill \in CandidateSet
CoverageOf(field) ==
    IF Len(TrimmedLower(Get(job_role, field))) = 0 THEN 10000
    ELSE Share(TrimmedLower(Get(job_role, field)), InCandidateSet)

\* C11: required_coverage, and preferred_coverage by the same formula, is
\* 100 * (entries of the trimmed, blank-free skill list whose lowercase form
\* is in the candidate's lowercase skill set) / (entries of that list),
\* rounded to 2 decimals, a duplicate counted per occurrence, and 100.0 when
\* the list is empty after dropping blanks
C11_Coverage ==
    \A c \in Calls :
        Deterministic(c) =>
            /\ Component(c, "required_coverage") = CoverageOf("required_skills")
            /\ Component(c, "preferred_coverage") = CoverageOf("preferred_skills")

\* The required list names one skill twice, the candidate has it, and the
\* preferred list has a blank entry and is covered in part
C11_Witness ==
    \E c \in Calls :
        /\ Deterministic(c)
        /\ Len(Entries(Get(job_role, "required_skills"))) = 2
        /\ Entries(Get(job_role, "required_skills"))[1]
              = Entries(Get(job_role, "required_skills"))[2]
        /\ Component(c, "required_coverage") = 10000
        /\ Len(Entries(Get(job_role, "preferred_skills")))
              > Len(TrimmedLower(Get(job_role, "preferred_skills")))
        /\ Component(c, "preferred_coverage") = 5000


\* The candidate's resume text in lowercase: parsed_text, else raw_text,
\* else the empty text
ResumeLower ==
    LET parsed_text == Get(candidate, "parsed_text")
        raw_text == Get(candidate, "raw_text")
    IN  IF Truthy(parsed_text) THEN Lower(parsed_text.v)
        ELSE IF Truthy(raw_text) THEN Lower(raw_text.v)
        ELSE <<>>
Occurs(key) ==
    \E i \in 1..(Len(ResumeLower) - Len(key) + 1) :
        SubSeq(ResumeLower, i, i + Len(key) - 1) = key
Keys == TrimmedLower(Get(job_role, "required_skills"))
           \o TrimmedLower(Get(job_role, "preferred_skills"))

\* C12: semantic_fit is 100 * (entries of required ++ preferred, not
\* deduplicated, whose lowercase string is a substring of the lowercased
\* resume text) / (length of the concatenation), rounded to 2 decimals, and
\* exactly 50.0 when both lists are empty
C12_SemanticFit ==
    \A c \in Calls :
        Deterministic(c) =>
            Component(c, "semantic_fit") =
                (IF Len(Keys) = 0 THEN 5000 ELSE Share(Keys, Occurs))

\* A skill named by both lists is found in the resume text and counts twice
C12_Witness ==
    \E c \in Calls :
        /\ Deterministic(c)
        /\ Len(Keys) = 3
        /\ Keys[1] = Keys[3]
        /\ Occurs(Keys[1]) /\ ~Occurs(Keys[2])
        /\ Component(c, "semantic_fit") = 6667


\* The job's experience requirement: the top-level experience_level if it
\* is truthy, else the one of the parsed requirements; normalized to years
Requirement ==
    IF Truthy(Get(job_role, "experience_level")) THEN Get(job_role, "experience_level")
    ELSE IF IsDict(Get(job_role, "parsed"))
         THEN Get(Get(job_role, "parsed").v, "experience_level")
         ELSE None
RequiredYears == parse_experience_to_int(Requirement)
Years ==
    IF Truthy(Get(candidate, "experience_years")) THEN Get(candidate, "experience_years").v
    ELSE 0

\* C13: experience_fit is 50.0 whenever the normalized requirement is absent
\* or <= 0, whatever the candidate's years; otherwise 100.0 if the
\* candidate's years >= the required years, else
\* round(100 * years / required, 2); missing or null years count as 0
C13_ExperienceFit ==
    \A c \in Calls :
        Deterministic(c) =>
            Component(c, "experience_fit") =
                (IF IsNone(RequiredYears) \/ RequiredYears.v <= 0 THEN 5000
                 ELSE IF Years >= RequiredYears.v THEN 10000
                 ELSE RoundDiv(10000 * Years, RequiredYears.v))

\* Two years against a requirement of five
C13_Witness ==
    \E c \in Calls :
        /\ Deterministic(c)
        /\ Get(job_role, "experience_level") = sPlus
        /\ Get(candidate, "experience_years") = PyInt(2)
        /\ Component(c, "experience_fit") = 4000


\* The level handed to parse_experience_to_int and, for a text, its
\* lowercase trimmed form, its first run of digits and its keyword
Level == Get(job_role, "experience_level")
LevelText == Strip(Lower(Level.v))
HasDigit(text) == \E i \in 1..Len(text) : IsDigit(text[i])
FirstDigitAt(text) ==
    CHOOSE i \in 1..Len(text) : IsDigit(text[i]) /\ \A m \in 1..(i - 1) : ~IsDigit(text[m])
RunEnd(text, i) ==
    CHOOSE j \in i..Len(text) :
        /\ \A k \in i..j : IsDigit(text[k])
        /\ j = Len(text) \/ ~IsDigit(text[j + 1])
FirstNumber(text) == ToInt(SubSeq(text, FirstDigitAt(text), RunEnd(text, FirstDigitAt(text))))
Has(text, word) ==
    \E i \in 1..(Len(text) - Len(word) + 1) : SubSeq(text, i, i + Len(word) - 1) = word
KeywordYears(text) ==
    CASE Has(text, KwIntern) \/ Has(text, KwEntry) -> PyInt(0)
      [] Has(text, KwJunior) -> PyInt(1)
      [] Has(text, KwMid) -> PyInt(3)
      [] Has(text, KwSenior) -> PyInt(5)
      [] Has(text, KwLead) \/ Has(text, KwPrincipal) -> PyInt(7)
      [] OTHER -> None
Parsed(c) == calls[c].entry = "parse_experience_to_int" /\ Returned(c)

\* C14: parse_experience_to_int applies its rules in the order numeric
\* input, range, plus, any run of digits, keywords, absent: a text with a
\* digit yields the range's average if it starts with a range and its first
\* number otherwise, whichever keywords it holds; only a text without a
\* digit yields a keyword's years, the earlier keyword first, and None if it
\* holds none
C14_RuleOrder ==
    \A c \in Calls :
        Parsed(c) =>
            CASE IsNone(Level) -> calls[c].ret.v = None
              [] IsInt(Level) -> calls[c].ret.v = Level
              [] IsFloat(Level) -> IsInt(calls[c].ret.v)
              [] IsStr(Level) /\ HasDigit(LevelText) ->
                    calls[c].ret.v =
                        (IF MatchRange(LevelText)[1]
                         THEN PyInt((MatchRange(LevelText)[2] + MatchRange(LevelText)[3]) \div 2)
                         ELSE PyInt(FirstNumber(LevelText)))
              [] OTHER -> calls[c].ret.v = KeywordYears(LevelText)

\* "Senior, 2+ years" yields 2
C14_Witness ==
    \E c \in Calls :
        /\ Parsed(c)
        /\ IsStr(Level)
        /\ Has(LevelText, KwSenior)
        /\ ~MatchPlus(LevelText)[1]
        /\ HasDigit(LevelText)
        /\ FirstNumber(LevelText) = 2
        /\ calls[c].ret.v = PyInt(2)


\* The candidate with skills {Python, SQL}, empty resume text, no projects
\* and no experience, scored against the job that requires [Python, SQL,
\* AWS] and has no preferred skills, responsibilities or experience level
Example(c) ==
    /\ Deterministic(c)
    /\ candidate = ExampleCandidate
    /\ job_role = ExampleJob
ExampleComponents(c) ==
    /\ Component(c, "required_coverage") = 6667
    /\ Component(c, "preferred_coverage") = 10000
    /\ Component(c, "semantic_fit") = 0
    /\ Component(c, "project_relevance") = 10000
    /\ Component(c, "experience_fit") = 5000

\* C15: for that candidate and job the deterministic scorer returns
\* requiredCoverage 66.67, preferredCoverage 100.0, semanticFit 0.0,
\* projectRelevance 100.0, experienceFit 50.0 and overallScore 65.83
C15_Example ==
    \A c \in Calls :
        Example(c) => ExampleComponents(c) /\ calls[c].ret.v["score"] = PyFloat(6583)

\* C15 as stated: the same components and overallScore 65.84
C15_AsStated ==
    \A c \in Calls :
        Example(c) => ExampleComponents(c) /\ calls[c].ret.v["score"] = PyFloat(6584)

\* The example has been scored
C15_Witness == \E c \in Calls : Example(c) /\ calls[c].entry = "deterministic_score"


\* The normalized form of a text, and the characters of a normalized text
Normal(x) == _clean(x).v
Chars(text) == {text[i] : i \in 1..Len(text)}
Compares(c) == calls[c].entry = "_similarity" /\ Returned(c)
SameRatio(x, y) == x[1] * y[2] = y[1] * x[2]

\* C16: the similarity of a and b is within [0,1], is the similarity of b
\* and a, is 1.0 when the normalized strings are identical and is 0.0 when
\* the normalized strings share no character
C16_Similarity ==
    \A c \in Calls :
        Compares(c) =>
            LET a == calls[c].ret.v.a
                b == calls[c].ret.v.b
                ratio == calls[c].ret.v.ratio
            IN  /\ 0 <= ratio[1] /\ ratio[1] <= ratio[2]
                /\ SameRatio(ratio, _similarity(b, a))
                /\ Normal(a) = Normal(b) => SameRatio(ratio, <<1, 1>>)
                /\ (Chars(Normal(a)) \cap Chars(Normal(b)) = {} /\ Normal(a) # Normal(b))
                      => SameRatio(ratio, <<0, 1>>)


\* The text handed to _clean and the calls that returned from it
CleanInput == candidate["projects"].v[1]
Cleans(c) == calls[c].entry = "_clean" /\ Returned(c)

\* C17: _clean is idempotent, its output is lowercase, has no leading or
\* trailing whitespace and no run of more than one whitespace character,
\* and an empty or null input yields the empty string
C17_Clean ==
    \A c \in Calls :
        Cleans(c) =>
            LET out == calls[c].ret.v
            IN  /\ _clean(PyStr(out)) = Ok(out)
                /\ \A i \in 1..Len(out) : ~IsUpper(out[i])
                /\ Len(out) > 0 => out[1] \notin Whitespace /\ out[Len(out)] \notin Whitespace
                /\ \A i \in 1..(Len(out) - 1) :
                      ~(out[i] \in Whitespace /\ out[i + 1] \in Whitespace)
                /\ (IsNone(CleanInput) \/ CleanInput = sEmpty) => out = <<>>

\* An uppercase letter, a space and a tab, and a letter come out as the
\* lowercase letters with one space between them
C17_Witness ==
    \E c \in Calls :
        /\ Cleans(c)
        /\ CleanInput = PyStr(<<"A", " ", "\t", "b">>)
        /\ calls[c].ret.v = <<"a", " ", "b">>


\* The projects and responsibilities handed to project_relevance_score,
\* the ones that are not blank after normalization, the best similarity of
\* a responsibility to a project, and the sum of a set of responsibilities
Relevance(c) == calls[c].entry = "project_relevance_score" /\ Returned(c)
Projects == Entries(Get(candidate, "projects"))
Responsibilities == Entries(Get(job_role, "responsibilities"))
NonBlankProjects == {i \in 1..Len(Projects) : Normal(Projects[i]) # <<>>}
NonBlankResponsibilities == {i \in 1..Len(Responsibilities) : Normal(Responsibilities[i]) # <<>>}
AtLeast(x, y) == x[1] * y[2] >= y[1] * x[2]
BestOf(r) ==
    IF NonBlankProjects = {} THEN <<0, 1>>
    ELSE LET sims == {_similarity(Projects[i], r) : i \in NonBlankProjects}
         IN  CHOOSE m \in sims : \A o \in sims : AtLeast(m, o)
Kept(r, threshold) == IF AtLeast(BestOf(r), threshold) THEN BestOf(r) ELSE <<0, 1>>
RECURSIVE SumKept(_, _)
SumKept(I, threshold) ==
    IF I = {} THEN <<0, 1>>
    ELSE LET i == CHOOSE j \in I : TRUE
         IN  FracAdd(Kept(Responsibilities[i], threshold), SumKept(I \ {i}, threshold))
MeanKept(threshold) ==
    RoundDiv(1000 * SumKept(NonBlankResponsibilities, threshold)[1],
             SumKept(NonBlankResponsibilities, threshold)[2]
                * Cardinality(NonBlankResponsibilities))

\* C18: for non-empty projects and responsibilities the result is
\* round(mean over the non-blank responsibilities of c(r), 3), c(r) being
\* the greatest similarity of r to a non-blank project if it is >= the
\* threshold and 0 otherwise; blank responsibilities are left out of the sum
\* and of the divisor, and the result is 0.0 if all of them are blank
C18_Mean ==
    \A c \in Calls :
        (Relevance(c) /\ Len(Projects) > 0 /\ Len(Responsibilities) > 0) =>
            calls[c].ret.v =
                (IF NonBlankResponsibilities = {} THEN 0
                 ELSE MeanKept(calls[c].threshold))

\* The one non-blank responsibility has a best similarity equal to the
\* threshold, which is kept; the blank one is left out of the divisor
C18_Witness ==
    \E c \in Calls :
        /\ Relevance(c)
        /\ Len(Responsibilities) = 2
        /\ Cardinality(NonBlankResponsibilities) = 1
        /\ NonBlankProjects # {}
        /\ \A i \in NonBlankResponsibilities :
              SameRatio(BestOf(Responsibilities[i]), calls[c].threshold)
        /\ calls[c].ret.v = 500


\* The project relevance computation fails: the candidate has a project
\* that is a non-blank string and the job's responsibilities hold an entry
\* that is not a string and not falsy
RelevanceFails ==
    /\ \E i \in 1..Len(Projects) : IsSkill(Projects[i])
    /\ \E i \in 1..Len(Responsibilities) :
          Truthy(Responsibilities[i]) /\ ~IsStr(Responsibilities[i])

\* C19: when the project relevance computation fails, deterministic_score
\* still returns: project_relevance is 0.0, the other four components are
\* what they are without the failure, and the score is the weighted sum
\* with that 0.0
C19_RelevanceFailure ==
    \A c \in Calls :
        (calls[c].entry = "deterministic_score" /\ RelevanceFails /\ Done(c)) =>
            /\ Returned(c)
            /\ Component(c, "project_relevance") = 0
            /\ Component(c, "required_coverage") = CoverageOf("required_skills")
            /\ Component(c, "preferred_coverage") = CoverageOf("preferred_skills")
            /\ Component(c, "semantic_fit") = (IF Len(Keys) = 0 THEN 5000 ELSE Share(Keys, Occurs))
            /\ Component(c, "experience_fit") =
                  (IF IsNone(RequiredYears) \/ RequiredYears.v <= 0 THEN 5000
                   ELSE IF Years >= RequiredYears.v THEN 10000
                   ELSE RoundDiv(10000 * Years, RequiredYears.v))
            /\ calls[c].ret.v["score"].v =
                  RoundDiv(35 * Component(c, "required_coverage")
                           + 15 * Component(c, "preferred_coverage")
                           + 15 * Component(c, "semantic_fit")
                           + 15 * Component(c, "experience_fit"), 100)

\* A responsibility that matches a project comes before the entry that
\* makes the computation fail, and the call returned 0.0 for the component
C19_Witness ==
    \E c \in Calls :
        /\ Deterministic(c)
        /\ RelevanceFails
        /\ Responsibilities[1] = sRespA
        /\ \E i \in 1..Len(Projects) : Projects[i] = sProjA
        /\ Component(c, "project_relevance") = 0
        /\ Component(c, "required_coverage") = 5000


\* The texts that are a range expression A-B or a plus expression A+, with
\* whitespace around the hyphen and around the expression
Blanks == {<<>>, <<" ">>, <<" ", "\t">>}
Numbers == 0..25
Numeral(n) == IF n < 10 THEN <<Digits[n + 1]>> ELSE <<Digits[(n \div 10) + 1], Digits[(n % 10) + 1]>>
IsRangeOf(text, a, b) ==
    \E w1, w2 \in Blanks : text = Numeral(a) \o w1 \o <<"-">> \o w2 \o Numeral(b)
IsPlusOf(text, a) == text = Numeral(a) \o <<"+">>

\* C20: parse_experience_to_int returns floor((A+B)/2) on a range
\* expression "A-B", with optional whitespace around the hyphen and around
\* the expression, returns A on a plus expression "A+", and truncates a
\* numeric input to an integer
C20_RangePlusNumeric ==
    \A c \in Calls :
        Parsed(c) =>
            /\ IsStr(Level) =>
                  \A a \in Numbers :
                      /\ IsPlusOf(Strip(Level.v), a) => calls[c].ret.v = PyInt(a)
                      /\ \A b \in Numbers :
                            IsRangeOf(Strip(Level.v), a, b) =>
                                calls[c].ret.v = PyInt((a + b) \div 2)
            /\ IsInt(Level) => calls[c].ret.v = Level
            /\ IsFloat(Level) =>
                  /\ IsInt(calls[c].ret.v)
                  /\ 100 * calls[c].ret.v.v <= Level.v + 99
                  /\ 100 * calls[c].ret.v.v >= Level.v - 99
                  /\ Level.v >= 0 => 100 * calls[c].ret.v.v <= Level.v
                  /\ Level.v <= 0 => 100 * calls[c].ret.v.v >= Level.v

\* " 10-21 " yields 15
C20_Witness ==
    \E c \in Calls :
        /\ Parsed(c)
        /\ IsStr(Level)
        /\ Level.v # Strip(Level.v)
        /\ IsRangeOf(Strip(Level.v), 10, 21)
        /\ calls[c].ret.v = PyInt(15)


\* The keywords in their fixed order, the years each stands for, and the
\* places in that order whose keyword occurs in a text
KeywordOrder == <<{KwIntern, KwEntry}, {KwJunior}, {KwMid}, {KwSenior}, {KwLead, KwPrincipal}>>
KeywordValue == <<0, 1, 3, 5, 7>>
Occurring(text) == {r \in 1..5 : \E w \in KeywordOrder[r] : Has(text, w)}
First(ranks) == CHOOSE r \in ranks : \A q \in ranks : r <= q

\* C21: for a text without a digit parse_experience_to_int returns the years
\* of the first keyword, in the order intern/entry (0), junior (1), mid (3),
\* senior (5), lead/principal (7), that occurs in the text whatever its case,
\* so 3 for a text with "mid" and "senior" and 5 for one with "senior" and
\* "lead" and no earlier keyword, and None if none occurs; None yields None
C21_FirstKeyword ==
    \A c \in Calls :
        Parsed(c) =>
            /\ IsNone(Level) => calls[c].ret.v = None
            /\ IsStr(Level) /\ ~HasDigit(Level.v) =>
                /\ Occurring(LevelText) = {} => calls[c].ret.v = None
                /\ Occurring(LevelText) # {} =>
                       calls[c].ret.v = PyInt(KeywordValue[First(Occurring(LevelText))])
                /\ {3, 4} \subseteq Occurring(Lower(Level.v)) /\ Occurring(LevelText) \cap {1, 2} = {}
                       => calls[c].ret.v = PyInt(3)
                /\ {4, 5} \subseteq Occurring(Lower(Level.v)) /\ Occurring(LevelText) \cap {1, 2, 3} = {}
                       => calls[c].ret.v = PyInt(5)

\* "SENIOR mid" yields 3
C21_Witness ==
    \E c \in Calls :
        /\ Parsed(c)
        /\ IsStr(Level)
        /\ ~HasDigit(Level.v)
        /\ Level.v # Lower(Level.v)
        /\ Occurring(LevelText) = {3, 4}
        /\ Has(LevelText, KwSenior \o <<" ">> \o KwMid)
        /\ calls[c].ret.v = PyInt(3)


\* The explanations of a result; the number an explanation shows between
\* its label and its "%", in hundredths; the component each label names
Explanations(c) == calls[c].ret.v["explanations"].v
Shown(e) == SubSeq(e.v, 2, Len(e.v) - 1)
Unsigned(t) == IF t[1] = "-" THEN Tail(t) ELSE t
DotAt(t) == CHOOSE i \in 1..Len(t) : t[i] = "."
Decimals(t) == SubSeq(t, DotAt(t) + 1, Len(t))
ShownValue(e) ==
    LET t == Unsigned(Shown(e))
        whole == ToInt(SubSeq(t, 1, DotAt(t) - 1))
        part == IF Len(Decimals(t)) = 1 THEN 10 * ToInt(Decimals(t)) ELSE ToInt(Decimals(t))
    IN  IF Shown(e)[1] = "-" THEN 0 - (100 * whole + part) ELSE 100 * whole + part
Reports(e, c, k) ==
    IsStr(e) /\ e.v[Len(e.v)] = "%" /\ ShownValue(e) = Component(c, k)
Explained ==
    <<[label |-> "Required skill match: ", key |-> "required_coverage"],
      [label |-> "Preferred skill match: ", key |-> "preferred_coverage"],
      [label |-> "Project relevance: ", key |-> "project_relevance"],
      [label |-> "Experience fit: ", key |-> "experience_fit"]>>

\* C22 as amended: the explanations of a deterministic result are four
\* strings, for the required coverage, the preferred coverage, the project
\* relevance and the experience fit in that order, each showing exactly the
\* value of its component in the same result; the semantic fit has none
C22_FourExplanations ==
    \A c \in Calls :
        Deterministic(c) =>
            /\ Len(Explanations(c)) = 4
            /\ \A i \in 1..4 :
                /\ Explanations(c)[i].v[1] = Explained[i].label
                /\ Reports(Explanations(c)[i], c, Explained[i].key)

\* C22 as stated: the explanations of a deterministic result hold one
\* string for each of the five components, showing that component's value
C22_OnePerComponent ==
    \A c \in Calls :
        Deterministic(c) =>
            /\ Len(Explanations(c)) = Cardinality(ComponentKeys)
            /\ \E f \in [ComponentKeys -> 1..Len(Explanations(c))] :
                /\ \A j, k \in ComponentKeys : j # k => f[j] # f[k]
                /\ \A k \in ComponentKeys : Reports(Explanations(c)[f[k]], c, k)

\* A result whose four explained components differ from each other, one of
\* them with a decimal and one negative
C22_Witness ==
    \E c \in Calls :
        /\ Deterministic(c)
        /\ Cardinality({Component(c, Explained[i].key) : i \in 1..4}) = 4
        /\ \E i \in 1..4 : Component(c, Explained[i].key) % 100 # 0
        /\ Component(c, "experience_fit") < 0
        /\ Len(Explanations(c)) = 4
        /\ \A i \in 1..4 : Reports(Explanations(c)[i], c, Explained[i].key)


\* What the second call's candidate has gained over the first call's: the
\* candidates agree outside one field; a list is another with one entry more
Overall(c) == calls[c].ret.v["score"].v
SameBut(field) ==
    \A k \in (DOMAIN candidate \cup DOMAIN candidate_in) \ {field} :
        Get(candidate, k) = Get(candidate_in, k)
Without(l, i) == SubSeq(l, 1, i - 1) \o SubSeq(l, i + 1, Len(l))
OneMore(old, new) == \E i \in 1..Len(new) : Without(new, i) = old
ProjectAdded ==
    /\ SameBut("projects")
    /\ OneMore(Entries(Get(candidate_in, "projects")), Entries(Get(candidate, "projects")))
    /\ \A i \in 1..Len(Entries(Get(candidate, "projects"))) :
           IsStr(Entries(Get(candidate, "projects"))[i])
BothRelevance ==
    /\ Relevance(1) /\ Relevance(2)
    /\ calls[1].threshold = calls[2].threshold
BothDeterministic ==
    /\ calls[1].entry = "deterministic_score" /\ Returned(1)
    /\ calls[2].entry = "deterministic_score" /\ Returned(2)

\* C24: for non-empty responsibilities and one threshold, a candidate with
\* one project description more gets a project_relevance_score that is not
\* lower, and from deterministic_score a project_relevance component and a
\* score that are not lower
C24_MoreProjects ==
    ProjectAdded /\ Truthy(Get(job_role, "responsibilities")) =>
        /\ BothRelevance => calls[1].ret.v <= calls[2].ret.v
        /\ BothDeterministic =>
            /\ Component(1, "project_relevance") <= Component(2, "project_relevance")
            /\ Overall(1) <= Overall(2)

\* A project put in front of another raises the component and the score
C24_Witness ==
    /\ ProjectAdded
    /\ Truthy(Get(job_role, "responsibilities"))
    /\ BothDeterministic
    /\ Len(Entries(Get(candidate, "projects"))) = 2
    /\ Entries(Get(candidate, "projects"))[2] = Entries(Get(candidate_in, "projects"))[1]
    /\ 0 < Component(1, "project_relevance")
    /\ Component(1, "project_relevance") < Component(2, "project_relevance")
    /\ Overall(1) < Overall(2)


\* The years of experience a candidate mapping counts for
YearsOf(cand) ==
    IF IsInt(Get(cand, "experience_years")) THEN Get(cand, "experience_years").v ELSE 0
SkillAdded ==
    /\ SameBut("skills")
    /\ OneMore(Entries(Get(candidate_in, "skills")), Entries(Get(candidate, "skills")))
    /\ \A i \in 1..Len(Entries(Get(candidate, "skills"))) :
           IsStr(Entries(Get(candidate, "skills"))[i])
YearsRaised ==
    /\ SameBut("experience_years")
    /\ 0 <= YearsOf(candidate_in)
    /\ YearsOf(candidate_in) < YearsOf(candidate)

\* C25: for one job, a candidate with one skill more, or with more years of
\* experience (none negative), and otherwise the same gets from
\* deterministic_score five components and a score none of which is lower
C25_MoreSkillsOrYears ==
    (SkillAdded \/ YearsRaised) /\ BothDeterministic =>
        /\ \A k \in ComponentKeys : Component(1, k) <= Component(2, k)
        /\ Overall(1) <= Overall(2)

\* A required skill more raises the required coverage and the score
C25_Witness ==
    /\ SkillAdded
    /\ BothDeterministic
    /\ 0 < Component(1, "required_coverage")
    /\ Component(1, "required_coverage") < Component(2, "required_coverage")
    /\ Component(1, "preferred_coverage") = Component(2, "preferred_coverage")
    /\ Overall(1) < Overall(2)


\* Where a range "A-B" or a plus "A+" stands in a text: the run of digits
\* that starts at i, then blanks, then the sign, and for a range blanks and
\* a digit again
Skip(text, i) ==
    CHOOSE j \in i..(Len(text) + 1) :
        /\ \A m \in i..(j - 1) : text[m] \in Whitespace
        /\ j = Len(text) + 1 \/ text[j] \notin Whitespace
SignAt(text, i) == Skip(text, RunEnd(text, i) + 1)
HasSign(text, i, sign) ==
    /\ i <= Len(text) /\ IsDigit(text[i])
    /\ SignAt(text, i) <= Len(text) /\ text[SignAt(text, i)] = sign
SecondAt(text, i) == Skip(text, SignAt(text, i) + 1)
RangeAt(text, i) ==
    /\ HasSign(text, i, "-")
    /\ SecondAt(text, i) <= Len(text) /\ IsDigit(text[SecondAt(text, i)])
PlusAt(text, i) == HasSign(text, i, "+")
NumberAt(text, i) == ToInt(SubSeq(text, i, RunEnd(text, i)))

\* C26: parse_experience_to_int applies the range rule and the plus rule at
\* the start of the trimmed lowercase text only: a text that starts with a
\* range yields floor((A+B)/2) and one that starts with a plus yields A,
\* whatever follows; a text that starts with neither and holds a range
\* further on yields its first run of digits
C26_LeadingOnly ==
    \A c \in Calls :
        Parsed(c) /\ IsStr(Level) =>
            /\ RangeAt(LevelText, 1) =>
                   calls[c].ret.v = PyInt((NumberAt(LevelText, 1)
                                           + NumberAt(LevelText, SecondAt(LevelText, 1))) \div 2)
            /\ PlusAt(LevelText, 1) => calls[c].ret.v = PyInt(NumberAt(LevelText, 1))
            /\ /\ ~RangeAt(LevelText, 1)
               /\ ~PlusAt(LevelText, 1)
               /\ \E i \in 2..Len(LevelText) : RangeAt(LevelText, i)
               => calls[c].ret.v = PyInt(FirstNumber(LevelText))

\* "experience: 3-5 years" yields 3
C26_Witness ==
    \E c \in Calls :
        /\ Parsed(c)
        /\ IsStr(Level)
        /\ Len(LevelText) > 13
        /\ ~HasDigit(SubSeq(LevelText, 1, 12))
        /\ RangeAt(LevelText, 13)
        /\ NumberAt(LevelText, 13) = 3
        /\ NumberAt(LevelText, SecondAt(LevelText, 13)) = 5
        /\ SecondAt(LevelText, 13) < Len(LevelText)
        /\ calls[c].ret.v = PyInt(3)


\* C30: run_self_analysis, resume parsing and skill extraction having
\* succeeded, gets a complete result from compute_match_score at step 3
\* and reaches its return
C30_SelfAnalysisReturns ==
    \A c \in Calls :
        calls[c].entry = "run_self_analysis" /\ Done(c) =>
            /\ Returned(c)
            /\ Complete(calls[c].ret.v["match_score"].v)


\* C29: whatever the interleaving of score_single and shortlist_batch
\* requests, same filenames included, what a request parsed for each of its
\* files is the bytes that request uploaded for it
C29_ParsesOwnBytes ==
    \A r \in Calls :
        \A k \in 1..Len(requests[r].seen) :
            requests[r].seen[k] = requests[r].files[k].bytes

\* C28: the store holds at most one chat for the job role of the recruiter's
\* requests, and a request that created a chat had found none in a store
\* that still holds none but its own
ChatsOf(job) == {k \in 1..Len(chats) : chats[k].job_role_id = Get(job, "_id")}
C23_FallbackScores ==
    \A r \in Calls :
        requests[r].kind = "batch" =>
            \A k \in 1..Len(requests[r].scored) :
                ~requests[r].scored[k].first =>
                    /\ requests[r].scored[k].second
                    /\ requests[r].scored[k].method = PyStr(<<"deterministic">>)
                    /\ ~(requests[r].pc = "raised" /\ requests[r].i = requests[r].scored[k].file)


\* C27: in a shortlist_batch request that returned, every file has exactly
\* one entry in shortlisted and rejected together and exactly one chat
\* message; a file whose resume has an email is in shortlisted iff the match
\* score of its entry is at least 45; a file with no detected email is in
\* rejected with match_score 0 and no candidate id
EntriesFor(list, k) == {j \in 1..Len(list) : list[j].file = k}
Detected(content) ==
    content \notin {"missing", "empty"} /\ Truthy(Resumes[content].email)
Completed(r) == requests[r].kind = "batch" /\ requests[r].pc = "returned"
FileSettled(req, k) ==
    LET short == EntriesFor(req.shortlisted, k)
        rej == EntriesFor(req.rejected, k)
    IN  /\ Cardinality(short) + Cardinality(rej) = 1
        /\ Cardinality(EntriesFor(req.messages, k)) = 1
        /\ Truthy(Resumes[req.files[k].bytes].email) =>
              \A j \in short \cup rej :
                  LET entry == IF j \in short THEN req.shortlisted[j] ELSE req.rejected[j]
                  IN  /\ IsInt(entry.match_score) \/ IsFloat(entry.match_score)
                      /\ j \in short <=> Cents(entry.match_score) >= 4500
        /\ ~Detected(req.seen[k]) =>
              /\ short = {}
              /\ \A j \in rej : /\ req.rejected[j].match_score = PyInt(0)
                                /\ req.rejected[j].candidate_id = None
==========================================================================
